---- MODULE Spec2Model ----
(***************************************************************************)
(* A model of the JIMM gateway: the controller monitor with its per-       *)
(* controller lease (internal/monitor/monitor.go) and the model lifecycle  *)
(* engine (package jem, JEM.CreateModel and createModelOnController).      *)
(***************************************************************************)
EXTENDS Integers, Sequences, FiniteSets, TLC

(***************************************************************************)
(* Bounds and program constants.                                           *)
(***************************************************************************)

\* The clock runs from 0 to MaxTime, in units of 30 s.
MaxTime == 2

\* At most MaxFaults events are injected from outside in one behaviour: store
\* errors, controller monitor failures, replica crashes, Monitor.Kill calls,
\* refused requests, failed dials and failed calls to a controller.
MaxFaults == 2

\* monitor.go:33, leaseExpiryDuration = 1 minute = two clock units.
leaseExpiryDuration == 2

\* Gateway replicas (distinct owner ids) sharing one Index.
Replicas == {"r1", "r2"}

\* The controller paths.
Controllers == {"c1", "c2"}

\* The deployments checked: the controllers of the Index, in the order
\* AllControllers lists them, with the replicas started on it.
Deployments ==
    {[ctls |-> <<"c1">>, replicas |-> {"r1", "r2"}],
     [ctls |-> <<"c1", "c2">>, replicas |-> {"r1"}]}

\* The owner of a released lease: the empty owner id.
NoOwner == ""

\* The callers of JEM.CreateModel, each of which makes one call; the calls
\* overlap or follow each other.
Calls == {"k1", "k2"}

\* The model paths asked for (p.Path).
Paths == {"p1", "p2"}

\* The candidate lists possibleControllers can return, the order being the
\* one the shuffle produced.
CandidateLists == {<<"c1">>, <<"c2">>, <<"c1", "c2">>, <<"c2", "c1">>}

VARIABLES
    \* ---- the Index (shared store) ----
    now,            \* Clock.Now()
    controllers,    \* the controllers collection, as AllControllers lists it
    leaseOwner,     \* controller -> monitorLeaseOwner
    leaseExpiry,    \* controller -> monitorLeaseExpiry
    \* ---- one gateway replica each ----
    alive,          \* replica -> the process is running
    mDying,         \* replica -> Monitor.tomb is dying (Monitor.Kill was called)
    supPc,          \* replica -> position of Monitor.run
    amPc,           \* replica -> position of allMonitor.run
    amErr,          \* replica -> what allMonitor.run returned
    amDying,        \* replica -> allMonitor.tomb is dying
    todo,           \* replica -> the part of the ctls listing not yet swept
    monitoring,     \* replica -> allMonitor.monitoring
    gPc,            \* replica -> controller -> position of the goroutine of lines 198-214
    cmPc,           \* replica -> controller -> state of the controller monitor
    cmErr,          \* replica -> controller -> what ctlMonitor.Wait() returns
    cmExpiry,       \* replica -> controller -> controllerMonitor.leaseExpiry
    dup,            \* replica -> a second monitor was started beside a live one
    faults,         \* the number of events injected so far
    \* ---- the Index: models, credentials, audit log ----
    models,         \* model path -> the Model row, or NoRow
    credCtls,       \* the controllers set of the cloud credential
    audit,          \* the audit log, oldest entry first
    \* ---- the Juju controllers ----
    remote,         \* controller -> model name -> UUID of the remote model
    credOn,         \* the controllers the credential was pushed to
    \* ---- the gateway process serving the API ----
    uuidNext,       \* the state of pool.uuidGenerator
    calls,          \* caller -> the locals of its JEM.CreateModel call
    \* ---- the API connection cache of the pool ----
    entries,        \* key -> the cached connection and its reference count
    dialing,        \* the dial functions that are running
    dials,          \* key -> how many times a dial function was invoked
    completed,      \* key -> how many dial functions have returned
    opens,          \* caller -> the locals of its OpenAPIFromDoc call
    \* ---- the facade calls run under runWithContext ----
    runs,           \* caller -> its runWithContext call, its task and its context
    \* ---- credentials: the Index, the controllers, the credential engine ----
    pending,        \* controller -> its UpdateCredentials list
    revoked,        \* credential -> the Revoked field of the stored credential
    remoteCred,     \* controller -> credential -> what the controller holds
    upd,             \* the locals of the JEM.UpdateCredential call
    pushers,        \* controller -> the fan-out goroutine of the call
    dr,             \* the locals of the JEM.ControllerUpdateCredentials call
    \* ---- the access lists of a model ----
    acl,            \* access level -> the users of the Model row's ACL
    remoteAcl,      \* access level -> the users the controller has granted it
    gr,             \* the locals of the JEM.GrantModel or JEM.RevokeModel call
    \* ---- the life of the models ----
    life,           \* path -> the life stored in the Model row
    upDying,        \* the models whose destruction the controllers have accepted
    dm,             \* the locals of the JEM.DestroyModel call
    mi,             \* the locals of the controllerRoot.modelInfo call
    \* ---- one client connection and the calls dispatched on it ----
    root,           \* the controllerRoot: facades, identity, mu, the heart monitor
    fm,             \* caller -> the locals of its dispatched call
    \* ---- the stored cloud credentials and the calls that read them ----
    store,          \* credential path -> the stored credential, or NoCred
    fc,             \* the last call that read a credential, and its result
    \* ---- the controllers collection and its deletions ----
    ctlRows,        \* the paths of the stored Controller rows
    mdlRows,        \* path -> the Controller field of the stored Model row, or NoMdl
    dc,             \* the last AddController or DeleteController call
    \* ---- the migrate command of jimmctl ----
    mc,             \* the migrateModelCommand and what its Init returned
    \* ---- the reference count of the pool ----
    pool,           \* Pool.refCount, Pool.closed and the closes of the connection cache
    jems,           \* JEM instance -> what it is and how it was made
    \* ---- overlapping UpdateCredential calls ----
    credVer,        \* the version of the stored credential
    flagged,        \* the controllers with the credential in UpdateCredentials
    held,           \* controller -> the version of the credential it holds
    ucs             \* caller -> the locals of its UpdateCredential call

monVars == <<now, controllers, leaseOwner, leaseExpiry, alive, mDying, supPc, amPc, amErr,
             amDying, todo, monitoring, gPc, cmPc, cmErr, cmExpiry, dup>>

jemVars == <<models, credCtls, audit, remote, credOn, uuidNext, calls>>

poolVars == <<entries, dialing, dials, completed, opens>>

runVars == <<runs>>

credVars == <<pending, revoked, remoteCred, upd, pushers, dr>>

aclVars == <<acl, remoteAcl, gr>>

lifeVars == <<life, upDying, dm, mi>>

dispVars == <<root, fm>>

fnVars == <<store, fc>>

delVars == <<ctlRows, mdlRows, dc>>

cmdVars == <<mc>>

refVars == <<pool, jems>>

ovVars == <<credVer, flagged, held, ucs>>

moreVars == <<delVars, cmdVars, refVars, ovVars>>

laterVars == <<dispVars, fnVars, moreVars>>

restVars == <<lifeVars, laterVars>>

extVars == <<poolVars, runVars, credVars, aclVars, restVars>>

vars == <<monVars, jemVars, faults, extVars>>

(***************************************************************************)
(* The Index: the monitoring lease of a controller.                        *)
(***************************************************************************)

\* AcquireMonitorLease: a compare-and-swap on (monitorLeaseOwner,
\* monitorLeaseExpiry). TRUE when the stored pair is the expected one.
LeaseMatches(c, oldExpiry, oldOwner) ==
    leaseOwner[c] = oldOwner /\ leaseExpiry[c] = oldExpiry

\* The listing AllControllers returns: every controller with its lease fields.
AllControllers ==
    [i \in 1..Len(controllers) |->
        [path   |-> controllers[i],
         owner  |-> leaseOwner[controllers[i]],
         expiry |-> leaseExpiry[controllers[i]]]]

(***************************************************************************)
(* The controller monitor (one per acquired lease).                        *)
(***************************************************************************)

\* The monitor is reading its controller's event stream.
IsReading(r, c) == cmPc[r][c] \in {"running", "killed"}

\* The tomb of the allMonitor is dead: run and every goroutine have returned.
AmDead(r) == amPc[r] = "returned" /\ \A c \in Controllers : gPc[r][c] = "none"

MonTypeOK ==
    /\ now \in 0..MaxTime
    /\ leaseOwner \in [Controllers -> Replicas \cup {NoOwner}]
    /\ leaseExpiry \in [Controllers -> 0..(MaxTime + leaseExpiryDuration)]
    /\ alive \in [Replicas -> BOOLEAN]
    /\ mDying \in [Replicas -> BOOLEAN]
    /\ supPc \in [Replicas -> {"run", "shutdown", "stopped"}]
    /\ amPc \in [Replicas -> {"list", "sweep", "wait", "drain", "returned"}]
    /\ amErr \in [Replicas -> {"none", "dying", "error"}]
    /\ amDying \in [Replicas -> BOOLEAN]
    /\ monitoring \in [Replicas -> SUBSET Controllers]
    /\ gPc \in [Replicas -> [Controllers -> {"none", "select", "wait", "send"}]]
    /\ cmPc \in [Replicas -> [Controllers ->
                    {"none", "running", "killed", "dead", "crashed"}]]
    /\ cmErr \in [Replicas -> [Controllers -> {"none", "stopped", "error"}]]
    /\ dup \in [Replicas -> BOOLEAN]
    /\ faults \in 0..MaxFaults

\* New(p, ownerId) on every replica of the deployment: Monitor.run has made
\* its first allMonitor, which is about to list the controllers; no lease is
\* held. A replica that is not part of the deployment never runs.
InitMon ==
    /\ now = 0
    /\ \E d \in Deployments :
          /\ controllers = d.ctls
          /\ alive = [r \in Replicas |-> r \in d.replicas]
          /\ supPc = [r \in Replicas |-> IF r \in d.replicas THEN "run" ELSE "stopped"]
          /\ amPc = [r \in Replicas |-> IF r \in d.replicas THEN "list" ELSE "returned"]
    /\ leaseOwner = [c \in Controllers |-> NoOwner]
    /\ leaseExpiry = [c \in Controllers |-> 0]
    /\ mDying = [r \in Replicas |-> FALSE]
    /\ amErr = [r \in Replicas |-> "none"]
    /\ amDying = [r \in Replicas |-> FALSE]
    /\ todo = [r \in Replicas |-> <<>>]
    /\ monitoring = [r \in Replicas |-> {}]
    /\ gPc = [r \in Replicas |-> [c \in Controllers |-> "none"]]
    /\ cmPc = [r \in Replicas |-> [c \in Controllers |-> "none"]]
    /\ cmErr = [r \in Replicas |-> [c \in Controllers |-> "none"]]
    /\ cmExpiry = [r \in Replicas |-> [c \in Controllers |-> 0]]
    /\ dup = [r \in Replicas |-> FALSE]
    /\ faults = 0

(***************************************************************************)
(* Errors, UUIDs and rows of package jem (src/unnamed/part_001).           *)
(***************************************************************************)

\* An error value: its cause (errgo.Cause) and its message.
Err(cause, msg) == [cause |-> cause, msg |-> msg]

\* The nil error.
NoErr == Err("", "")

\* part_001:585.
errInvalidModelParams == "invalid CreateModel request"

\* params.ErrAlreadyExists, params.ErrUnauthorized, params.ErrNotFound and
\* params.ErrAmbiguousChoice.
ErrAlreadyExists == "already exists"
ErrUnauthorized == "unauthorized"
ErrNotFound == "not found"
ErrForbidden == "forbidden"
ErrAmbiguousChoice == "ambiguous choice"

\* The error codes of the controller's answer to CreateModel: jujuparams
\* CodeAlreadyExists, CodeUpgradeInProgress, and a code of a bad request.
CodeAlreadyExists == "already exists"
CodeUpgradeInProgress == "upgrade in progress"
CodeBadRequest == "bad request"

\* errgo.Notef(err, msg): a new message, and the cause is not kept.
Notef(err, msg) == Err("", msg)

\* errgo.WithCausef(err, cause, msg): the given cause.
WithCausef(err, cause, msg) == Err(cause, msg)

\* errgo.Mask(err, errgo.Is(c1), ...): the cause is kept when it is one of
\* the allowed ones and dropped otherwise.
Mask(err, allowed) == Err(IF err.cause \in allowed THEN err.cause ELSE "", err.msg)

\* errgo.New(msg).
New(msg) == Err("", msg)

\* No UUID.
NoUUID == <<>>

\* A placeholder that is the same for every call.
PlaceholderUUIDFixed(n) == <<"creating-", 0>>

\* part_001:464, fmt.Sprintf("creating-%x", n): the placeholder UUID.
PlaceholderUUID(n) == <<"creating-", n>>

\* The UUID the controller c gives to the model it creates under name p.
RemoteUUID(c, p) == <<"uuid-", c, p>>

\* No Model row under a path.
NoRow == [uuid |-> NoUUID, controller |-> ""]

\* The locals of a call that has not started.
IdleCall ==
    [pc |-> "idle", path |-> "", cands |-> <<>>, cred |-> FALSE, revoked |-> FALSE,
     sub |-> "", idx |-> 0,
     placeholder |-> NoUUID, trail |-> <<>>, minfo |-> NoUUID, ctlPath |-> "",
     err |-> NoErr, ret |-> NoErr, leaked |-> FALSE]

\* A return that runs the deferred function of the call whatever the call
\* had reached.
ReturnedThroughCleanup(call, e) == [call EXCEPT !.pc = "cleanup", !.err = e]

\* The call has returned e: its locals are gone, what is left is what the
\* caller sees for the path it asked for.
Returned(call, e) == [IdleCall EXCEPT !.pc = "done", !.path = call.path, !.ret = e]

\* An empty Index, controllers without models, nobody calling.
InitJEM ==
    /\ models = [p \in Paths |-> NoRow]
    /\ credCtls = {}
    /\ audit = <<>>
    /\ remote = [c \in Controllers |-> [p \in Paths |-> NoUUID]]
    /\ credOn = {}
    /\ uuidNext = 0
    /\ calls = [k \in Calls |-> IdleCall]

\* A gateway process that runs no monitor.
InitNoMonitor ==
    /\ now = 0
    /\ controllers = <<>>
    /\ alive = [r \in Replicas |-> FALSE]
    /\ supPc = [r \in Replicas |-> "stopped"]
    /\ amPc = [r \in Replicas |-> "returned"]
    /\ leaseOwner = [c \in Controllers |-> NoOwner]
    /\ leaseExpiry = [c \in Controllers |-> 0]
    /\ mDying = [r \in Replicas |-> FALSE]
    /\ amErr = [r \in Replicas |-> "none"]
    /\ amDying = [r \in Replicas |-> FALSE]
    /\ todo = [r \in Replicas |-> <<>>]
    /\ monitoring = [r \in Replicas |-> {}]
    /\ gPc = [r \in Replicas |-> [c \in Controllers |-> "none"]]
    /\ cmPc = [r \in Replicas |-> [c \in Controllers |-> "none"]]
    /\ cmErr = [r \in Replicas |-> [c \in Controllers |-> "none"]]
    /\ cmExpiry = [r \in Replicas |-> [c \in Controllers |-> 0]]
    /\ dup = [r \in Replicas |-> FALSE]
    /\ faults = 0

\* The callers of the connection cache.
PoolCallers == {"a1", "a2", "a3"}

\* The UUID of a controller, the key of its connection in the cache
\* (part_001:290, ctl.UUID).
ControllerUUID(c) == <<"controller-uuid-", c>>

PoolKeys == {ControllerUUID(c) : c \in Controllers}

\* No connection cached under a key.
NoEntry == [dial |-> 0, refs |-> 0]

\* The locals of an OpenAPIFromDoc call that has not started.
IdleOpen == [pc |-> "idle", key |-> <<>>, epoch |-> 0, dial |-> 0, hit |-> FALSE, err |-> NoErr]

\* apiconn.NewCache (part_001:134): an empty cache, nobody calling.
InitPool ==
    /\ entries = [key \in PoolKeys |-> NoEntry]
    /\ dialing = {}
    /\ dials = [key \in PoolKeys |-> 0]
    /\ completed = [key \in PoolKeys |-> 0]
    /\ opens = [a \in PoolCallers |-> IdleOpen]

\* The callers of runWithContext.
Runners == {"t1", "t2"}

\* A runWithContext call that has not started: the caller's position, the
\* task's position, what f returned, ctx.Err(), what the call returned and
\* whether the task logged an error.
IdleRun ==
    [pc |-> "idle", task |-> "none", f |-> NoErr, ctx |-> NoErr, ret |-> NoErr,
     logged |-> FALSE]

\* Nobody has called runWithContext.
InitRun == runs = [t \in Runners |-> IdleRun]

\* The credential CreateModel and UpdateCredential work on, whose
\* controllers set is credCtls, and another credential of the same user.
TheCred == "cr1"
OtherCred == "cr2"
CredPaths == {TheCred, OtherCred}

\* The credential is in the controller's UpdateCredentials list.
Listed(c, cr) == \E i \in 1..Len(pending[c]) : pending[c][i] = cr

\* part_001:724, range ctl.UpdateCredentials: the array as it is stored, in
\* the order in which the updates were recorded.
PendingList(c) == pending[c]

\* setCredentialUpdates(ctls, credPath): the credential is added to the
\* UpdateCredentials list of each of the controllers, at its end, unless it
\* is in the list.
SetCredentialUpdates(ctls, cr) ==
    [c \in Controllers |->
        IF c \in ctls /\ ~Listed(c, cr) THEN Append(pending[c], cr) ELSE pending[c]]

\* clearCredentialUpdate(ctlPath, credPath): the credential is pulled from
\* the controller's UpdateCredentials list.
ClearCredentialUpdate(c, cr) ==
    [pending EXCEPT ![c] = SelectSeq(@, LAMBDA x : x # cr)]

\* part_001:764-771, what the controller holds after a successful push:
\* RevokeCredential for a revoked credential, UpdateCredential otherwise.
Pushed(c, cr, rev) == [remoteCred EXCEPT ![c][cr] = IF rev THEN "revoked" ELSE "updated"]

\* The locals of an UpdateCredential call that has not started: the
\* Controllers and Revoked fields of the argument, the reloaded document c,
\* n, the tokens in ch, the controllers whose push failure was logged,
\* whether the select took <-ctx.Done(), whether ctx is done, the result.
IdleUC ==
    [pc |-> "idle", arg |-> {}, rev |-> FALSE, loaded |-> FALSE,
     c |-> [controllers |-> {}, revoked |-> FALSE], n |-> 0, ch |-> 0,
     failed |-> {}, spun |-> FALSE, ctx |-> FALSE, ret |-> NoErr]

\* No fan-out goroutine.
NoPusher == [pc |-> "none", err |-> NoErr]

\* The locals of a ControllerUpdateCredentials call that has not started:
\* its position, the controller, the list it walks and where it is in it,
\* the Revoked field of the credential document it read last, the error it
\* returned and the credentials whose update failed.
IdleDrain ==
    [pc |-> "idle", ctl |-> "", list |-> <<>>, idx |-> 0, rev |-> FALSE, err |-> NoErr,
     failed |-> {}]

\* No credential is deployed, no update is pending, nobody is calling.
InitCredQuiet ==
    /\ pending = [c \in Controllers |-> <<>>]
    /\ revoked = [cr \in CredPaths |-> FALSE]
    /\ remoteCred = [c \in Controllers |-> [cr \in CredPaths |-> "none"]]
    /\ upd = IdleUC
    /\ pushers = [c \in Controllers |-> NoPusher]
    /\ dr = IdleDrain

\* The users that are granted access, and the access levels of a model.
Users == {"u1", "u2"}
Levels == {"read", "write", "admin"}

\* No successful GrantModel came just before.
NoGrant == [user |-> "", access |-> "", before |-> <<>>]

\* The locals of a GrantModel or RevokeModel call that has not started:
\* which of the two, its arguments, the ACL when it was called, how far it
\* got, its result, and the successful GrantModel that came just before it.
IdleGrant ==
    [pc |-> "idle", op |-> "", user |-> "", access |-> "", before |-> <<>>,
     localOK |-> FALSE, contacted |-> FALSE, ret |-> NoErr, prev |-> NoGrant]

\* A model nobody was granted access to, nobody calling.
InitAclQuiet ==
    /\ acl = [l \in Levels |-> {}]
    /\ remoteAcl = [l \in Levels |-> {}]
    /\ gr = IdleGrant

\* The locals of a DestroyModel call that has not started: the model
\* document it was given, the error of the controller, the result.
IdleDestroy ==
    [pc |-> "idle", path |-> "", ctl |-> "", uuid |-> NoUUID, upErr |-> NoErr, ret |-> NoErr]

\* The locals of a modelInfo call that has not started: the model document
\* getModel read, the error code of the controller's ModelInfo, how
\* DeleteModelWithUUID went, the result and the info returned.
IdleInfo ==
    [pc |-> "idle", path |-> "", ctl |-> "", uuid |-> NoUUID, life |-> "", code |-> "",
     del |-> "none", ret |-> NoErr, info |-> <<>>, localOnly |-> FALSE]

\* Every model is alive, nobody is calling.
InitLifeQuiet ==
    /\ life = [p \in Paths |-> "alive"]
    /\ upDying = {}
    /\ dm = IdleDestroy
    /\ mi = IdleInfo

\* The goroutines of the RPC server that dispatch calls on the connection.
DispCallers == {"g1", "g2"}

\* controllerroot.go:49-52.
unauthenticatedFacades ==
    [f \in {<<"Admin", 3>>, <<"Pinger", 1>>} |-> f[1]]

\* controllerroot.go:103-118, newControllerRoot: the table of the
\* unauthenticated state, no identity, mu unlocked; beats counts the calls of
\* heartMonitor.Heartbeat and finds the invocations of FindMethod.
NewControllerRoot ==
    [facades |-> "unauthenticated", identity |-> "", mu |-> "", beats |-> 0, finds |-> 0]

\* The locals of a dispatched call that has not started: the request, the
\* table FindMethod looked the pair up in and the root method it found, the
\* error of the call, whether a facade object was returned and whether
\* Admin.Login was entered, and how the call read r.identity.
IdleFind ==
    [pc |-> "idle", rootName |-> "", version |-> 0, objectId |-> "", at |-> "", rn |-> "",
     err |-> NoErr, handler |-> FALSE, login |-> FALSE, user |-> "",
     read |-> "none", seen |-> ""]

\* A fresh connection with no call on it.
InitDispQuiet ==
    /\ root = NewControllerRoot
    /\ fm = [c \in DispCallers |-> IdleFind]

\* The paths (cloud, user, name) of the cloud credentials.
CredUniverse == {<<"aws", "u1", "a">>, <<"aws", "u1", "b">>, <<"gce", "u1", "a">>}

\* The zero params.CredentialPath.
ZeroPath == <<"", "", "">>

\* No credential is stored under the path.
NoCred == [read |-> {"-"}]

\* No call has read a credential.
IdleFn ==
    [kind |-> "none", id |-> "", path |-> ZeroPath, user |-> "", cloud |-> "",
     usage |-> "none", failed |-> FALSE, superuser |-> FALSE, hidden |-> FALSE, given |-> <<>>,
     cred |-> ZeroPath, attrs |-> <<>>, redacted |-> {}, err |-> NoErr]

\* No credential is stored and none was read.
InitFnQuiet ==
    /\ store = [p \in CredUniverse |-> NoCred]
    /\ fc = IdleFn

\* The parts added after the life of the models, at rest.
\* No call of AddController or DeleteController was made.
IdleDelete ==
    [op |-> "none", path |-> "", err |-> NoErr, referenced |-> FALSE, before |-> <<>>]

\* The paths of the Model rows: the controllers' own and one more.
DelPaths == Controllers \cup {"m1"}

\* No Model row is stored under the path.
NoMdl == "absent"

\* No controller is stored.
InitDelQuiet ==
    /\ ctlRows = {}
    /\ mdlRows = [p \in DelPaths |-> NoMdl]
    /\ dc = IdleDelete

\* NewMigrateModelCommand (migratemodel.go:36-42): no target, no tags.
NewMigrateModelCommand ==
    [pc |-> "new", args |-> <<>>, targetController |-> <<>>, modelTags |-> <<>>,
     err |-> NoErr]

InitCmdQuiet == mc = NewMigrateModelCommand

\* The JEM instances a run can make.
MaxJems == 3
JemIds == 1..MaxJems

\* The reference count a run lets the pool reach.
MaxRef == 4

\* No JEM instance under the id.
NoJem == [st |-> "none", fan |-> FALSE, closes |-> 0]

\* part_001:119-152, NewPool: the pool starts with a reference count of 1
\* and is not closed; the JEM it makes for its own use is closed before it
\* returns.  cacheCloses counts the calls of connCache.Close, panic is the
\* value of the last panic, and reused says that a closed JEM was cloned.
NewPool ==
    [refCount |-> 1, closed |-> FALSE, cacheCloses |-> 0, panic |-> "", reused |-> FALSE]

\* A new pool that has handed out no JEM.
InitRefQuiet ==
    /\ pool = NewPool
    /\ jems = [i \in JemIds |-> NoJem]

\* The callers of UpdateCredential that may overlap.
UCallers == {"u1", "u2"}

\* The locals of an UpdateCredential call that has not started: its
\* position, the Controllers field of its argument, the version of the
\* reloaded document c, the position of the goroutine of each controller,
\* and the result.
IdleUCs ==
    [pc |-> "idle", arg |-> {}, c |-> 0, push |-> [c \in Controllers |-> "none"],
     ret |-> NoErr]

\* The credential is stored in its first version, every controller holds
\* that version, no update is pending and nobody is calling.
InitOvQuiet ==
    /\ credVer = 0
    /\ flagged = {}
    /\ held = [c \in Controllers |-> 0]
    /\ ucs = [u \in UCallers |-> IdleUCs]

\* The parts added last, at rest.
InitMore == InitDelQuiet /\ InitCmdQuiet /\ InitRefQuiet /\ InitOvQuiet

InitLater == InitDispQuiet /\ InitFnQuiet /\ InitMore

\* The parts of the process that were added later and are at rest.
InitRest == InitLifeQuiet /\ InitLater

\* The parts of the process that a specification leaves at rest.
InitExt == InitPool /\ InitRun /\ InitCredQuiet /\ InitAclQuiet /\ InitRest

Init == InitMon /\ InitJEM /\ InitExt

(***************************************************************************)
(* allMonitor.startMonitors (monitor.go:164-217).                          *)
(***************************************************************************)

\* One more event is injected from outside.
Fault == faults < MaxFaults /\ faults' = faults + 1

\* monitor.go:171, the controller is in the local monitoring set.
AlreadyMonitoring(r, ctl) == ctl.path \in monitoring[r]

\* A skip test with the comparison of the clock and the expiry the wrong way
\* round: only expired leases of others are left alone.
HeldByOtherReversed(r, ctl) == ctl.owner # r /\ ctl.expiry < now

\* monitor.go:176, someone else holds a lease that has not expired yet.
HeldByOther(r, ctl) == ctl.owner # r /\ now < ctl.expiry

\* A skip test that looks at the monitoring set only.
SweepSkipsMonitoredOnly(r, ctl) == ctl.path \in monitoring[r]

\* A skip test that looks at the lease only.
SweepSkipsHeldOnly(r, ctl) == ctl.owner # r /\ now < ctl.expiry

\* monitor.go:171-179, the controller is skipped.
SweepSkips(r, ctl) == AlreadyMonitoring(r, ctl) \/ HeldByOther(r, ctl)

\* monitor.go:169 and 216 with 141-146: with `rest` of the listing left, the
\* loop goes on; at its end startMonitors returns nil and run enters the wait
\* loop.
SweepOn(r, rest) ==
    /\ todo' = [todo EXCEPT ![r] = rest]
    /\ amPc' = [amPc EXCEPT ![r] = IF rest = <<>> THEN "wait" ELSE "sweep"]
    /\ UNCHANGED <<amErr, amDying>>

\* monitor.go:166-168 and 186-188 with 141-143: startMonitors returns an
\* error and so does allMonitor.run, which kills the allMonitor's tomb.
SweepFails(r) ==
    /\ todo' = [todo EXCEPT ![r] = <<>>]
    /\ amPc' = [amPc EXCEPT ![r] = "returned"]
    /\ amErr' = [amErr EXCEPT ![r] = "error"]
    /\ amDying' = [amDying EXCEPT ![r] = TRUE]

\* monitor.go:165-168, AllControllers: the listing, or a store error.
AmList(r) ==
    /\ alive[r] /\ amPc[r] = "list"
    /\ \/ SweepOn(r, AllControllers) /\ UNCHANGED faults
       \/ SweepFails(r) /\ Fault
    /\ UNCHANGED <<now, controllers, leaseOwner, leaseExpiry, alive, mDying,
                   supPc, monitoring, gPc, cmPc, cmErr, cmExpiry, dup>>
    /\ UNCHANGED <<jemVars, extVars>>

\* monitor.go:189-214, the lease was acquired: the controller joins the
\* monitoring set, its monitor starts with the new expiry and a goroutine of
\* the allMonitor's tomb waits for it.
StartMonitor(r, c, newExpiry) ==
    /\ monitoring' = [monitoring EXCEPT ![r] = @ \cup {c}]
    /\ cmPc' = [cmPc EXCEPT ![r][c] = "running"]
    /\ cmErr' = [cmErr EXCEPT ![r][c] = "none"]
    /\ cmExpiry' = [cmExpiry EXCEPT ![r][c] = newExpiry]
    /\ gPc' = [gPc EXCEPT ![r][c] = "select"]
    /\ dup' = [dup EXCEPT ![r] = @ \/ gPc[r][c] # "none"
                                   \/ cmPc[r][c] \in {"running", "killed"}]

\* monitor.go:169-215, one iteration of the loop over the listing.
AmSweep(r) ==
    /\ alive[r] /\ amPc[r] = "sweep" /\ todo[r] # <<>>
    /\ LET ctl == Head(todo[r])
           c == ctl.path
           newExpiry == now + leaseExpiryDuration
       IN  \/ /\ SweepSkips(r, ctl)
              /\ SweepOn(r, Tail(todo[r]))
              /\ UNCHANGED <<leaseOwner, leaseExpiry, monitoring, gPc, cmPc,
                             cmErr, cmExpiry, dup, faults>>
           \/ \* monitor.go:180-185, the compare-and-swap lost: someone else
              \* got there first.
              /\ ~SweepSkips(r, ctl)
              /\ ~LeaseMatches(c, ctl.expiry, ctl.owner)
              /\ SweepOn(r, Tail(todo[r]))
              /\ UNCHANGED <<leaseOwner, leaseExpiry, monitoring, gPc, cmPc,
                             cmErr, cmExpiry, dup, faults>>
           \/ \* monitor.go:186-188, any other error of acquireLease.
              /\ ~SweepSkips(r, ctl)
              /\ Fault
              /\ SweepFails(r)
              /\ UNCHANGED <<leaseOwner, leaseExpiry, monitoring, gPc, cmPc,
                             cmErr, cmExpiry, dup>>
           \/ \* monitor.go:189-214, the lease is ours.
              /\ ~SweepSkips(r, ctl)
              /\ LeaseMatches(c, ctl.expiry, ctl.owner)
              /\ leaseOwner' = [leaseOwner EXCEPT ![c] = r]
              /\ leaseExpiry' = [leaseExpiry EXCEPT ![c] = newExpiry]
              /\ StartMonitor(r, c, newExpiry)
              /\ SweepOn(r, Tail(todo[r]))
              /\ UNCHANGED faults
    /\ UNCHANGED <<now, controllers, alive, mDying, supPc>>
    /\ UNCHANGED <<jemVars, extVars>>

(***************************************************************************)
(* allMonitor.run (monitor.go:139-160).                                    *)
(***************************************************************************)

\* A goroutine is blocked sending its path on controllerRemoved.
Sending(r, c) == gPc[r][c] = "send"

\* monitor.go:209-213 with 148 or 154: the goroutine hands its path to run,
\* which deletes it from the monitoring set; the goroutine then returns nil
\* after a monitoring-stopped end and the monitor's error otherwise, and an
\* error kills the allMonitor's tomb.
RemoveController(r, c) ==
    /\ monitoring' = [monitoring EXCEPT ![r] = @ \ {c}]
    /\ gPc' = [gPc EXCEPT ![r][c] = "none"]
    /\ cmPc' = [cmPc EXCEPT ![r][c] = "none"]
    /\ cmErr' = [cmErr EXCEPT ![r][c] = "none"]
    /\ cmExpiry' = [cmExpiry EXCEPT ![r][c] = 0]
    /\ amDying' = [amDying EXCEPT ![r] = @ \/ cmErr[r][c] = "error"]

\* monitor.go:147-148, case ctlId := <-m.controllerRemoved.
AmRemoved(r, c) ==
    /\ alive[r] /\ amPc[r] = "wait" /\ Sending(r, c)
    /\ RemoveController(r, c)
    /\ UNCHANGED <<now, controllers, leaseOwner, leaseExpiry, alive, mDying, supPc, amPc,
                   amErr, todo, dup>>
    /\ UNCHANGED faults
    /\ UNCHANGED <<jemVars, extVars>>

\* monitor.go:149-150, case <-Clock.After(leaseAcquireInterval): the timer
\* has fired, on to the next sweep.
AmTimer(r) ==
    /\ alive[r] /\ amPc[r] = "wait"
    /\ amPc' = [amPc EXCEPT ![r] = "list"]
    /\ UNCHANGED <<now, controllers, leaseOwner, leaseExpiry, alive, mDying, supPc, amErr,
                   amDying, todo, monitoring, gPc, cmPc, cmErr, cmExpiry, dup>>
    /\ UNCHANGED faults
    /\ UNCHANGED <<jemVars, extVars>>

\* monitor.go:151-156, case <-m.tomb.Dying(): run waits for the controller
\* monitors still in the monitoring set, and returns tomb.ErrDying when the
\* set is empty.
AmDying(r) ==
    /\ alive[r] /\ amPc[r] = "wait" /\ amDying[r]
    /\ IF monitoring[r] = {}
       THEN /\ amPc' = [amPc EXCEPT ![r] = "returned"]
            /\ amErr' = [amErr EXCEPT ![r] = "dying"]
       ELSE /\ amPc' = [amPc EXCEPT ![r] = "drain"]
            /\ UNCHANGED amErr
    /\ UNCHANGED <<now, controllers, leaseOwner, leaseExpiry, alive, mDying, supPc,
                   amDying, todo, monitoring, gPc, cmPc, cmErr, cmExpiry, dup, faults>>
    /\ UNCHANGED <<jemVars, extVars>>

\* monitor.go:153-156, the drain loop receives one removal, and returns
\* tomb.ErrDying when that was the last one.
AmDrain(r, c) ==
    /\ alive[r] /\ amPc[r] = "drain" /\ monitoring[r] # {} /\ Sending(r, c)
    /\ RemoveController(r, c)
    /\ IF monitoring[r] \ {c} = {}
       THEN /\ amPc' = [amPc EXCEPT ![r] = "returned"]
            /\ amErr' = [amErr EXCEPT ![r] = "dying"]
       ELSE UNCHANGED <<amPc, amErr>>
    /\ UNCHANGED <<now, controllers, leaseOwner, leaseExpiry, alive, mDying, supPc, todo,
                   dup, faults>>
    /\ UNCHANGED <<jemVars, extVars>>

(***************************************************************************)
(* The goroutine started for each controller monitor (monitor.go:198-214). *)
(***************************************************************************)

\* monitor.go:200 and 207, the monitor is dead: Wait returns at once.
GoDead(r, c) ==
    /\ alive[r] /\ gPc[r][c] = "select" /\ cmPc[r][c] = "dead"
    /\ gPc' = [gPc EXCEPT ![r][c] = "send"]
    /\ UNCHANGED <<now, controllers, leaseOwner, leaseExpiry, alive, mDying, supPc, amPc,
                   amErr, amDying, todo, monitoring, cmPc, cmErr,
                   cmExpiry, dup>>
    /\ UNCHANGED faults
    /\ UNCHANGED <<jemVars, extVars>>

\* monitor.go:202-205, the allMonitor is dying: kill the controller monitor.
GoKill(r, c) ==
    /\ alive[r] /\ gPc[r][c] = "select" /\ amDying[r]
    /\ gPc' = [gPc EXCEPT ![r][c] = "wait"]
    /\ cmPc' = [cmPc EXCEPT ![r][c] = IF @ = "running" THEN "killed" ELSE @]
    /\ UNCHANGED <<now, controllers, leaseOwner, leaseExpiry, alive, mDying, supPc, amPc,
                   amErr, amDying, todo, monitoring, cmErr,
                   cmExpiry, dup>>
    /\ UNCHANGED faults
    /\ UNCHANGED <<jemVars, extVars>>

\* monitor.go:207, ctlMonitor.Wait() returns once the killed monitor is dead.
GoWait(r, c) ==
    /\ alive[r] /\ gPc[r][c] = "wait" /\ cmPc[r][c] = "dead"
    /\ gPc' = [gPc EXCEPT ![r][c] = "send"]
    /\ UNCHANGED <<now, controllers, leaseOwner, leaseExpiry, alive, mDying, supPc, amPc,
                   amErr, amDying, todo, monitoring, cmPc, cmErr,
                   cmExpiry, dup>>
    /\ UNCHANGED faults
    /\ UNCHANGED <<jemVars, extVars>>

(***************************************************************************)
(* The controller monitor: it renews its lease while it reads the event    *)
(* stream, and releases it when it terminates.                             *)
(***************************************************************************)

\* On termination the monitor releases the lease, clearing the owner, if it
\* still holds it; its tomb is then dead and Wait returns err.
CmTerminate(r, c, err) ==
    /\ IF LeaseMatches(c, cmExpiry[r][c], r)
       THEN /\ leaseOwner' = [leaseOwner EXCEPT ![c] = NoOwner]
            /\ leaseExpiry' = [leaseExpiry EXCEPT ![c] = 0]
       ELSE UNCHANGED <<leaseOwner, leaseExpiry>>
    /\ cmPc' = [cmPc EXCEPT ![r][c] = "dead"]
    /\ cmErr' = [cmErr EXCEPT ![r][c] = err]

\* The lease is renewed before it expires: compare-and-swap from the expiry
\* the monitor holds to now + leaseExpiryDuration. A lost lease ends the
\* monitor with the monitoring-stopped error.
CmRenew(r, c) ==
    /\ alive[r] /\ cmPc[r][c] = "running"
    /\ cmExpiry[r][c] # now + leaseExpiryDuration
    /\ IF LeaseMatches(c, cmExpiry[r][c], r)
       THEN /\ leaseExpiry' = [leaseExpiry EXCEPT ![c] = now + leaseExpiryDuration]
            /\ cmExpiry' = [cmExpiry EXCEPT ![r][c] = now + leaseExpiryDuration]
            /\ UNCHANGED <<leaseOwner, cmPc, cmErr>>
       ELSE /\ CmTerminate(r, c, "stopped")
            /\ UNCHANGED cmExpiry
    /\ UNCHANGED <<now, controllers, alive, mDying, supPc, amPc, amErr, amDying,
                   todo, monitoring, gPc, dup, faults>>
    /\ UNCHANGED <<jemVars, extVars>>

\* The monitor ends by itself: with the monitoring-stopped error (its
\* controller was removed) or with another error (the store failed).
CmFail(r, c) ==
    /\ alive[r] /\ cmPc[r][c] = "running"
    /\ Fault
    /\ \E e \in {"stopped", "error"} : CmTerminate(r, c, e)
    /\ UNCHANGED <<now, controllers, alive, mDying, supPc, amPc, amErr, amDying,
                   todo, monitoring, gPc, cmExpiry, dup>>
    /\ UNCHANGED <<jemVars, extVars>>

\* A killed monitor stops reading and terminates; Wait returns nil.
CmStop(r, c) ==
    /\ alive[r] /\ cmPc[r][c] = "killed"
    /\ CmTerminate(r, c, "none")
    /\ UNCHANGED <<now, controllers, alive, mDying, supPc, amPc, amErr, amDying,
                   todo, monitoring, gPc, cmExpiry, dup, faults>>
    /\ UNCHANGED <<jemVars, extVars>>

(***************************************************************************)
(* Monitor: the supervisor (monitor.go:55-92).                             *)
(***************************************************************************)

\* monitor.go:81-83 and 78-79, the inner monitor's tomb is dead: close the
\* session and start a new allMonitor with a fresh one.
SupRestart(r) ==
    /\ alive[r] /\ supPc[r] = "run" /\ AmDead(r)
    /\ amPc' = [amPc EXCEPT ![r] = "list"]
    /\ amErr' = [amErr EXCEPT ![r] = "none"]
    /\ amDying' = [amDying EXCEPT ![r] = FALSE]
    /\ monitoring' = [monitoring EXCEPT ![r] = {}]
    /\ todo' = [todo EXCEPT ![r] = <<>>]
    /\ UNCHANGED <<now, controllers, leaseOwner, leaseExpiry, alive, mDying, supPc,
                   gPc, cmPc, cmErr, cmExpiry, dup>>
    /\ UNCHANGED faults
    /\ UNCHANGED <<jemVars, extVars>>

\* monitor.go:66-68, Monitor.Kill.
MonitorKill(r) ==
    /\ alive[r] /\ ~mDying[r]
    /\ Fault
    /\ mDying' = [mDying EXCEPT ![r] = TRUE]
    /\ UNCHANGED <<now, controllers, leaseOwner, leaseExpiry, alive, supPc, amPc, amErr,
                   amDying, todo, monitoring, gPc, cmPc, cmErr,
                   cmExpiry, dup>>
    /\ UNCHANGED <<jemVars, extVars>>

\* monitor.go:84-86, case <-m.tomb.Dying(): kill the inner monitor and wait.
SupShutdown(r) ==
    /\ alive[r] /\ supPc[r] = "run" /\ mDying[r]
    /\ supPc' = [supPc EXCEPT ![r] = "shutdown"]
    /\ amDying' = [amDying EXCEPT ![r] = TRUE]
    /\ UNCHANGED <<now, controllers, leaseOwner, leaseExpiry, alive, mDying, amPc, amErr,
                   todo, monitoring, gPc, cmPc, cmErr, cmExpiry, dup>>
    /\ UNCHANGED faults
    /\ UNCHANGED <<jemVars, extVars>>

\* monitor.go:86-89, m1.Wait() returned: Monitor.run returns and Monitor.Wait
\* returns with it.
SupStopped(r) ==
    /\ alive[r] /\ supPc[r] = "shutdown" /\ AmDead(r)
    /\ supPc' = [supPc EXCEPT ![r] = "stopped"]
    /\ UNCHANGED <<now, controllers, leaseOwner, leaseExpiry, alive, mDying, amPc, amErr,
                   amDying, todo, monitoring, gPc, cmPc, cmErr,
                   cmExpiry, dup>>
    /\ UNCHANGED faults
    /\ UNCHANGED <<jemVars, extVars>>

(***************************************************************************)
(* The environment: the clock and the death of a replica.                  *)
(***************************************************************************)

\* Time passes, whatever the monitors do: a monitor that is late with its
\* renewal still reads when its lease has expired.
Tick ==
    /\ now < MaxTime
    /\ now' = now + 1
    /\ UNCHANGED <<controllers, leaseOwner, leaseExpiry, alive, mDying, supPc, amPc,
                   amErr, amDying, todo, monitoring, gPc, cmPc, cmErr,
                   cmExpiry, dup>>
    /\ UNCHANGED faults
    /\ UNCHANGED <<jemVars, extVars>>

\* The replica's process dies: nothing of it runs any more, its monitors stop
\* reading without releasing their leases.
Crash(r) ==
    /\ alive[r]
    /\ Fault
    /\ alive' = [alive EXCEPT ![r] = FALSE]
    /\ cmPc' = [cmPc EXCEPT ![r] =
                  [c \in Controllers |-> IF IsReading(r, c) THEN "crashed" ELSE "none"]]
    /\ cmErr' = [cmErr EXCEPT ![r] = [c \in Controllers |-> "none"]]
    /\ cmExpiry' = [cmExpiry EXCEPT ![r] = [c \in Controllers |-> 0]]
    /\ gPc' = [gPc EXCEPT ![r] = [c \in Controllers |-> "none"]]
    /\ monitoring' = [monitoring EXCEPT ![r] = {}]
    /\ todo' = [todo EXCEPT ![r] = <<>>]
    /\ amPc' = [amPc EXCEPT ![r] = "returned"]
    /\ amErr' = [amErr EXCEPT ![r] = "none"]
    /\ amDying' = [amDying EXCEPT ![r] = FALSE]
    /\ supPc' = [supPc EXCEPT ![r] = "stopped"]
    /\ mDying' = [mDying EXCEPT ![r] = FALSE]
    /\ UNCHANGED <<now, controllers, leaseOwner, leaseExpiry, dup>>
    /\ UNCHANGED <<jemVars, extVars>>

NextMon ==
    \/ Tick
    \/ \E r \in Replicas :
          \/ AmList(r) \/ AmSweep(r)
          \/ AmTimer(r) \/ AmDying(r)
          \/ SupRestart(r) \/ MonitorKill(r) \/ SupShutdown(r) \/ SupStopped(r)
          \/ Crash(r)
          \/ \E c \in Controllers :
                \/ AmRemoved(r, c) \/ AmDrain(r, c)
                \/ GoDead(r, c) \/ GoKill(r, c) \/ GoWait(r, c)
                \/ CmRenew(r, c) \/ CmFail(r, c) \/ CmStop(r, c)

SpecMon == Init /\ [][NextMon]_vars

(***************************************************************************)
(* JEM.CreateModel (part_001:424-560).                                     *)
(***************************************************************************)

\* The errors CreateModel returns before it reserves the path: CheckIsUser
\* (426-428); GetCredentials of the usage sender (430-437), masked without
\* a cause; selectCredential (441-444 with 911-926): the failed query, the
\* missing credential, the ambiguous choice; possibleControllers (446-449
\* with 566-572): the cloud region that is missing, cannot be read from the
\* store or may not be read by the caller.
PreErrors ==
    {Mask(Err(ErrUnauthorized, "unauthorized"), {ErrUnauthorized}),
     Mask(Err("", "cannot get usage sender credentials"), {}),
     Mask(Notef(NoErr, "cannot query credentials"), {ErrNotFound, ErrAmbiguousChoice}),
     Mask(WithCausef(NoErr, ErrNotFound, "credential not found"),
          {ErrNotFound, ErrAmbiguousChoice}),
     Mask(WithCausef(NoErr, ErrAmbiguousChoice, "more than one possible credential to use"),
          {ErrNotFound, ErrAmbiguousChoice}),
     Mask(Mask(Err(ErrNotFound, "cloud region not found"), {ErrNotFound}),
          {ErrNotFound, ErrUnauthorized}),
     Mask(Mask(Err("", "cannot get cloud region"), {ErrNotFound}),
          {ErrNotFound, ErrUnauthorized}),
     Mask(Mask(Err(ErrUnauthorized, "unauthorized"), {ErrUnauthorized}),
          {ErrNotFound, ErrUnauthorized})}

\* A failing call that returns at once, its deferred function skipped.
FailWithoutCleanup(call, e) == Returned(call, e)

\* part_001:473-485, `return nil, e` once the deferred function is in place:
\* the deferred function runs before the call returns e.
FailWith(call, e) == [call EXCEPT !.pc = "cleanup", !.err = e]

\* part_001:489 and 502-504, the loop is at candidate number i: past the end
\* of the list ctlPath is still empty and the call fails.
LoopOn(call, i) ==
    IF i <= Len(call.cands)
    THEN [call EXCEPT !.pc = "connect", !.idx = i]
    ELSE FailWith([call EXCEPT !.idx = i], New("cannot find suitable controller"))

\* A loop that no error stops.
StopsLoopNever(e) == FALSE

\* part_001:496, errgo.Cause(err) == errInvalidModelParams.
StopsLoop(e) == e.cause = errInvalidModelParams

\* part_001:491-500, createModelOnController returned the error e for the
\* candidate c: stop on invalid parameters, else log and go on.
CandidateFailed(call, c, e) ==
    LET tried == [call EXCEPT !.trail = Append(@, [ctl |-> c, err |-> e])]
    IN  IF StopsLoop(e)
        THEN FailWith(tried, Notef(e, "cannot create model"))
        ELSE LoopOn(tried, call.idx + 1)

\* part_001:424-449, the call starts: the caller's identity, the credential
\* and the candidate controllers are settled, or the call returns an error.
CMStart(k, p, cl, uc) ==
    /\ calls[k].pc = "idle"
    /\ \/ /\ calls' = [calls EXCEPT ![k] =
                          [IdleCall EXCEPT !.pc = "reserve", !.path = p,
                                           !.cands = cl, !.cred = uc,
                                           !.revoked = uc /\ revoked[TheCred]]]
          /\ UNCHANGED faults
       \/ /\ Fault
          /\ \E e \in PreErrors :
                calls' = [calls EXCEPT ![k] = Returned([IdleCall EXCEPT !.path = p], e)]
    /\ UNCHANGED <<models, credCtls, audit, remote, credOn, uuidNext>>
    /\ UNCHANGED <<monVars, extVars>>

\* AddModel finds a row under the path already: the path is the row's unique
\* id, and the insert fails with ErrAlreadyExists.
PathTaken(p) == models[p] # NoRow

\* part_001:456-471, the reservation: a row with a placeholder UUID from the
\* process-local generator is inserted under the path, unless the path is
\* taken or the store fails.
CMReserve(k) ==
    /\ calls[k].pc = "reserve"
    /\ uuidNext' = uuidNext + 1
    /\ LET call == calls[k]
           p == call.path
           u == PlaceholderUUID(uuidNext)
       IN  \/ /\ ~PathTaken(p)
              /\ models' = [models EXCEPT ![p] = [uuid |-> u, controller |-> ""]]
              /\ calls' = [calls EXCEPT ![k] =
                             LoopOn([call EXCEPT !.placeholder = u], 1)]
              /\ UNCHANGED faults
           \/ /\ PathTaken(p)
              /\ calls' = [calls EXCEPT ![k] =
                    Returned(call, Mask(Err(ErrAlreadyExists, "already exists"),
                                        {ErrAlreadyExists}))]
              /\ UNCHANGED <<models, faults>>
           \/ /\ Fault
              /\ calls' = [calls EXCEPT ![k] =
                    Returned(call, Mask(Err("", "cannot insert model"),
                                        {ErrAlreadyExists}))]
              /\ UNCHANGED models
    /\ UNCHANGED <<credCtls, audit, remote, credOn>>
    /\ UNCHANGED <<monVars, extVars>>

(***************************************************************************)
(* JEM.createModelOnController (part_001:587-657), one candidate.          *)
(***************************************************************************)

\* The candidate the loop is at.
Candidate(call) == call.cands[call.idx]

\* part_001:588-599, the controller document is read and the connection is
\* opened; a missing document, a deprecated controller and a failed dial
\* each end this candidate.
CMConnect(k) ==
    /\ calls[k].pc = "connect"
    /\ LET call == calls[k]
           c == Candidate(call)
       IN  \/ /\ calls' = [calls EXCEPT ![k] =
                    [call EXCEPT !.pc = IF call.cred THEN "cred" ELSE "create"]]
              /\ UNCHANGED faults
           \/ /\ Fault
              /\ \E msg \in {"cannot get controller document", "controller deprecated",
                              "cannot connect to controller"} :
                    calls' = [calls EXCEPT ![k] =
                                CandidateFailed(call, c, Notef(NoErr, msg))]
    /\ UNCHANGED <<models, credCtls, audit, remote, credOn, uuidNext>>
    /\ UNCHANGED <<monVars, extVars>>

\* A binding that is recorded whatever the push returned.
ControllersAfterPushAlways(c, pushErr) == credCtls \cup {c}

\* part_001:603-606, the controllers set of the credential once
\* updateControllerCredential has returned pushErr for the controller c:
\* credentialAddController is called only when the push returned nil.
ControllersAfterPush(c, pushErr) ==
    IF pushErr = NoErr THEN credCtls \cup {c} ELSE credCtls

\* part_001:601-610 with 755-783, the credential the call selected (441) is
\* pushed to the controller over the connection of the call, then
\* clearCredentialUpdate pulls it from the controller's UpdateCredentials
\* list, a failure being logged only (776-782), and then
\* credentialAddController adds the controller to the credential's
\* controllers set (606).  The three are separate calls, and other callers
\* run between them; a failure of the first or the last ends the candidate.
CMCred(k) ==
    /\ calls[k].pc = "cred"
    /\ LET call == calls[k]
           c == Candidate(call)
           failed == CandidateFailed([call EXCEPT !.sub = ""], c,
                                     Notef(NoErr, "cannot add credential"))
       IN  \/ /\ call.sub = ""
              /\ \/ /\ credOn' = credOn \cup {c}
                    /\ remoteCred' = Pushed(c, TheCred, call.revoked)
                    /\ calls' = [calls EXCEPT ![k] = [call EXCEPT !.sub = "clear"]]
                    /\ UNCHANGED <<credCtls, faults>>
                 \/ /\ Fault
                    /\ credCtls' = ControllersAfterPush(c, Notef(NoErr, "cannot update credentials"))
                    /\ calls' = [calls EXCEPT ![k] = failed]
                    /\ UNCHANGED <<credOn, remoteCred>>
              /\ UNCHANGED pending
           \/ /\ call.sub = "clear"
              /\ \/ pending' = ClearCredentialUpdate(c, TheCred) /\ UNCHANGED faults
                 \/ Fault /\ UNCHANGED pending
              /\ calls' = [calls EXCEPT ![k] = [call EXCEPT !.sub = "bind"]]
              /\ UNCHANGED <<credOn, remoteCred, credCtls>>
           \/ /\ call.sub = "bind"
              /\ \/ /\ credCtls' = ControllersAfterPush(c, NoErr)
                    /\ calls' = [calls EXCEPT ![k] = [call EXCEPT !.pc = "create", !.sub = ""]]
                    /\ UNCHANGED faults
                 \/ /\ Fault
                    /\ calls' = [calls EXCEPT ![k] = failed]
                    /\ UNCHANGED credCtls
              /\ UNCHANGED <<credOn, remoteCred, pending>>
    /\ UNCHANGED <<models, audit, remote, uuidNext>>
    /\ UNCHANGED <<monVars, poolVars, runVars, aclVars, restVars, revoked, upd, pushers, dr>>

\* part_001:621-642, the error createModelOnController makes of the
\* controller's error code.
CreateError(code) ==
    IF code = CodeAlreadyExists
    THEN Notef(Err(code, code), "model name in use")
    ELSE IF code = CodeUpgradeInProgress
         THEN Notef(Err(code, code), "upgrade in progress")
         ELSE WithCausef(Err(code, code), errInvalidModelParams, "")

\* part_001:612-642, the remote CreateModel: the controller creates the model
\* and answers with its UUID, or refuses: the name is in use on it, an upgrade
\* is in progress, or the request is bad.
CMCreate(k) ==
    /\ calls[k].pc = "create"
    /\ LET call == calls[k]
           c == Candidate(call)
           p == call.path
       IN  \/ /\ remote[c][p] = NoUUID
              /\ remote' = [remote EXCEPT ![c][p] = RemoteUUID(c, p)]
              /\ calls' = [calls EXCEPT ![k] =
                             [call EXCEPT !.pc = "grant", !.minfo = RemoteUUID(c, p)]]
              /\ UNCHANGED faults
           \/ /\ remote[c][p] # NoUUID
              /\ calls' = [calls EXCEPT ![k] =
                             CandidateFailed(call, c, CreateError(CodeAlreadyExists))]
              /\ UNCHANGED <<remote, faults>>
           \/ /\ Fault
              /\ \E code \in {CodeUpgradeInProgress, CodeBadRequest} :
                    calls' = [calls EXCEPT ![k] =
                                CandidateFailed(call, c, CreateError(code))]
              /\ UNCHANGED remote
    /\ UNCHANGED <<models, credCtls, audit, credOn, uuidNext>>
    /\ UNCHANGED <<monVars, extVars>>

\* part_001:646-656 with 492-495, the admin grant on the new model: on
\* success createModelOnController returns the model and the loop ends with
\* ctlPath set; on failure the remote model stays and the candidate has failed.
CMGrant(k) ==
    /\ calls[k].pc = "grant"
    /\ LET call == calls[k]
           c == Candidate(call)
       IN  \/ /\ calls' = [calls EXCEPT ![k] =
                    [call EXCEPT !.pc = "reconcile", !.ctlPath = c,
                                 !.trail = Append(@, [ctl |-> c, err |-> NoErr])]]
              /\ UNCHANGED faults
           \/ /\ Fault
              /\ calls' = [calls EXCEPT ![k] =
                    CandidateFailed([call EXCEPT !.minfo = NoUUID], c,
                                    Notef(NoErr, "cannot grant model access"))]
    /\ UNCHANGED <<models, credCtls, audit, remote, credOn, uuidNext>>
    /\ UNCHANGED <<monVars, extVars>>

(***************************************************************************)
(* JEM.CreateModel, after the loop (part_001:506-560) and the deferred     *)
(* removal of the reserved row (part_001:473-485).                         *)
(***************************************************************************)

\* An update that records the first candidate as the model's controller.
ReconciledRowFirstCandidate(call) == [uuid |-> call.minfo, controller |-> call.cands[1]]

\* An audit entry that names the first candidate.
AuditEntryFirstCandidate(call) ==
    [id |-> call.path, uuid |-> call.minfo, controllerPath |-> call.cands[1]]

\* part_001:526-536, the row after the update: the UUID of the model info
\* and the controller the model was created on.
ReconciledRow(call) == [uuid |-> call.minfo, controller |-> call.ctlPath]

\* part_001:543-554, the audit entry of the creation.
AuditEntry(call) ==
    [id |-> call.path, uuid |-> call.minfo, controllerPath |-> call.ctlPath]

\* part_001:526-541, the reserved row, found by its id, gets the real UUID
\* and the controller; the update fails when the row is gone or the store
\* fails.
CMReconcile(k) ==
    /\ calls[k].pc = "reconcile"
    /\ LET call == calls[k]
           p == call.path
       IN  \/ /\ models[p] # NoRow
              /\ models' = [models EXCEPT ![p] = ReconciledRow(call)]
              /\ calls' = [calls EXCEPT ![k] = [call EXCEPT !.pc = "audit"]]
              /\ UNCHANGED faults
           \/ \* The row is gone: Apply finds no document.
              /\ models[p] = NoRow
              /\ calls' = [calls EXCEPT ![k] =
                    FailWith(call, Notef(NoErr, "cannot update model in database"))]
              /\ UNCHANGED <<models, faults>>
           \/ /\ Fault
              /\ calls' = [calls EXCEPT ![k] =
                    FailWith(call, Notef(NoErr, "cannot update model in database"))]
              /\ UNCHANGED models
    /\ UNCHANGED <<credCtls, audit, remote, credOn, uuidNext>>
    /\ UNCHANGED <<monVars, extVars>>

\* part_001:543-559, the audit entry is appended, a failure being logged
\* only, and the call returns the model.
CMAudit(k) ==
    /\ calls[k].pc = "audit"
    /\ LET call == calls[k]
       IN  \/ /\ audit' = Append(audit, AuditEntry(call))
              /\ calls' = [calls EXCEPT ![k] = Returned(call, NoErr)]
              /\ UNCHANGED faults
           \/ /\ Fault
              /\ calls' = [calls EXCEPT ![k] = Returned(call, NoErr)]
              /\ UNCHANGED audit
    /\ UNCHANGED <<models, credCtls, remote, credOn, uuidNext>>
    /\ UNCHANGED <<monVars, extVars>>

\* part_001:473-485, the deferred function of a failing call: the row under
\* the path is deleted, a failure being logged only, and the call returns
\* its error.
CMCleanup(k) ==
    /\ calls[k].pc = "cleanup"
    /\ LET call == calls[k]
           p == call.path
       IN  \/ /\ models' = [models EXCEPT ![p] = NoRow]
              /\ calls' = [calls EXCEPT ![k] = Returned(call, call.err)]
              /\ UNCHANGED faults
           \/ /\ Fault
              /\ calls' = [calls EXCEPT ![k] =
                    [Returned(call, call.err) EXCEPT !.leaked = TRUE]]
              /\ UNCHANGED models
    /\ UNCHANGED <<credCtls, audit, remote, credOn, uuidNext>>
    /\ UNCHANGED <<monVars, extVars>>

NextCM ==
    \E k \in Calls :
        \/ \E p \in Paths : \E cl \in CandidateLists : \E uc \in BOOLEAN :
              CMStart(k, p, cl, uc)
        \/ CMReserve(k)
        \/ CMConnect(k) \/ CMCred(k) \/ CMCreate(k) \/ CMGrant(k)
        \/ CMReconcile(k) \/ CMAudit(k) \/ CMCleanup(k)

\* A gateway that serves CreateModel calls and runs no monitor.
InitCM == InitNoMonitor /\ InitJEM /\ InitExt

SpecCM == InitCM /\ [][NextCM]_vars

(***************************************************************************)
(* The API connection cache (Pool.connCache, part_001:84) as               *)
(* JEM.OpenAPIFromDoc uses it (part_001:289-299).                          *)
(***************************************************************************)

\* context.Canceled and context.DeadlineExceeded, the values of ctx.Err() of
\* a context that is done.
Canceled == Err("", "context canceled")
DeadlineExceeded == Err("", "context deadline exceeded")

\* How many dial functions a key may see.
MaxDials == 2

\* ErrAPIConnection, the cause of a failed dial (part_001:295).
ErrAPIConnection == "cannot connect to API"

\* A cache that never finds a dial in flight.
InFlightNever(key) == FALSE

\* A dial function for the key is running.
InFlight(key) == \E d \in dialing : d.key = key

\* The callers blocked on the dial d.
Waiters(d) ==
    {a \in PoolCallers :
        opens[a].pc = "waiting" /\ opens[a].key = d.key /\ opens[a].dial = d.n}

\* part_001:289-299, connCache.OpenAPI(ctx, ctl.UUID, dial): a cached
\* connection is returned with one more reference; otherwise the caller
\* blocks on the dial in flight for the key, and invokes the dial function
\* when there is none.  The caller waits under its context ctx, which may
\* be cancelled while it waits (OpenCancel).
OpenAPIFromDoc(a, c) ==
    /\ opens[a].pc = "idle"
    /\ LET key == ControllerUUID(c)
           call == [IdleOpen EXCEPT !.key = key, !.epoch = completed[key]]
       IN  \/ /\ entries[key] # NoEntry
              /\ entries' = [entries EXCEPT ![key].refs = @ + 1]
              /\ opens' = [opens EXCEPT ![a] =
                    [call EXCEPT !.pc = "open", !.dial = entries[key].dial, !.hit = TRUE]]
              /\ UNCHANGED <<dialing, dials>>
           \/ /\ entries[key] = NoEntry
              /\ InFlight(key)
              /\ \E d \in dialing :
                    /\ d.key = key
                    /\ opens' = [opens EXCEPT ![a] =
                          [call EXCEPT !.pc = "waiting", !.dial = d.n]]
              /\ UNCHANGED <<entries, dialing, dials>>
           \/ /\ entries[key] = NoEntry
              /\ ~InFlight(key)
              /\ dials[key] < MaxDials
              /\ dials' = [dials EXCEPT ![key] = @ + 1]
              /\ dialing' = dialing \cup {[key |-> key, n |-> dials[key] + 1]}
              /\ opens' = [opens EXCEPT ![a] =
                    [call EXCEPT !.pc = "waiting", !.dial = dials[key] + 1]]
              /\ UNCHANGED entries
    /\ UNCHANGED completed
    /\ UNCHANGED <<monVars, jemVars, faults, runVars, credVars, aclVars, restVars>>

\* part_001:290-298, the dial function returns: api.Open gave a connection,
\* which the cache registers with the references of the callers still
\* blocked on it, or failed, and every caller still blocked gets the
\* ErrAPIConnection error.  The callers that cancelled have left before and
\* get nothing of it; a dial that all its callers left was abandoned and
\* does not return.
DialReturns(d, ok) ==
    /\ d \in dialing
    /\ dialing' = dialing \ {d}
    /\ completed' = [completed EXCEPT ![d.key] = @ + 1]
    /\ IF ok
       THEN /\ entries' = [entries EXCEPT ![d.key] =
                  [dial |-> d.n, refs |-> Cardinality(Waiters(d))]]
            /\ opens' = [a \in PoolCallers |->
                  IF a \in Waiters(d) THEN [opens[a] EXCEPT !.pc = "open"] ELSE opens[a]]
       ELSE /\ opens' = [a \in PoolCallers |->
                  IF a \in Waiters(d)
                  THEN [opens[a] EXCEPT !.pc = "failed",
                                        !.err = WithCausef(NoErr, ErrAPIConnection, "")]
                  ELSE opens[a]]
            /\ UNCHANGED entries
    /\ UNCHANGED dials
    /\ UNCHANGED <<monVars, jemVars, faults, runVars, credVars, aclVars, restVars>>

\* The context of a caller blocked on a dial is cancelled: the caller leaves
\* with the error of its context, the others go on waiting, and the dial is
\* abandoned, neither a connection nor a failure coming of it, when the
\* caller was the last one blocked on it.
OpenCancel(a) ==
    /\ opens[a].pc = "waiting"
    /\ opens' = [opens EXCEPT ![a] = [@ EXCEPT !.pc = "failed", !.err = Canceled]]
    /\ LET d == [key |-> opens[a].key, n |-> opens[a].dial]
       IN  IF Waiters(d) = {a}
           THEN /\ dialing' = dialing \ {d}
                /\ completed' = [completed EXCEPT ![d.key] = @ + 1]
           ELSE UNCHANGED <<dialing, completed>>
    /\ UNCHANGED <<entries, dials>>
    /\ UNCHANGED <<monVars, jemVars, faults, runVars, credVars, aclVars, restVars>>

\* conn.Close() (part_001:599): the handle gives its reference back.
ConnClose(a) ==
    /\ opens[a].pc = "open"
    /\ entries' = [entries EXCEPT ![opens[a].key] =
          IF @.dial = opens[a].dial /\ @.refs > 0 THEN [@ EXCEPT !.refs = @ - 1] ELSE @]
    /\ opens' = [opens EXCEPT ![a] = IdleOpen]
    /\ UNCHANGED <<dialing, dials, completed>>
    /\ UNCHANGED <<monVars, jemVars, faults, runVars, credVars, aclVars, restVars>>

\* part_001:596-598: the caller returns the error of OpenAPIFromDoc.
OpenFailed(a) ==
    /\ opens[a].pc = "failed"
    /\ opens' = [opens EXCEPT ![a] = IdleOpen]
    /\ UNCHANGED <<entries, dialing, dials, completed>>
    /\ UNCHANGED <<monVars, jemVars, faults, runVars, credVars, aclVars, restVars>>

\* The cache evicts an entry that nobody holds.
Evict(key) ==
    /\ entries[key] # NoEntry
    /\ entries[key].refs = 0
    /\ entries' = [entries EXCEPT ![key] = NoEntry]
    /\ UNCHANGED <<dialing, dials, completed, opens>>
    /\ UNCHANGED <<monVars, jemVars, faults, runVars, credVars, aclVars, restVars>>

\* Pool.ClearAPIConnCache (part_001:179-181), connCache.EvictAll().
EvictAll ==
    /\ \E key \in PoolKeys : entries[key] # NoEntry
    /\ entries' = [key \in PoolKeys |-> NoEntry]
    /\ UNCHANGED <<dialing, dials, completed, opens>>
    /\ UNCHANGED <<monVars, jemVars, faults, runVars, credVars, aclVars, restVars>>

NextPool ==
    \/ \E a \in PoolCallers : \E c \in Controllers : OpenAPIFromDoc(a, c)
    \/ \E d \in dialing : \E ok \in BOOLEAN : DialReturns(d, ok)
    \/ \E a \in PoolCallers : OpenCancel(a)
    \/ \E a \in PoolCallers : ConnClose(a)
    \/ \E a \in PoolCallers : OpenFailed(a)
    \/ \E key \in PoolKeys : Evict(key)
    \/ EvictAll

SpecPool == InitCM /\ [][NextPool]_vars

(***************************************************************************)
(* runWithContext (internal/jujuapi/controllerroot.go:713-735).            *)
(***************************************************************************)

\* What the functions run under runWithContext return.
TaskResults == {NoErr, Err(ErrNotFound, "not found"), Err(ErrUnauthorized, "unauthorized")}

\* A context whose Done channel is always ready.
DoneReadyAlways(t) == TRUE

\* <-ctx.Done() is ready: the context is cancelled or past its deadline.
DoneReady(t) == runs[t].ctx # NoErr

\* controllerroot.go:717-719, the channel is made and the task is started;
\* the caller goes on to its select.
RunStart(t) ==
    /\ runs[t].pc = "idle"
    /\ runs' = [runs EXCEPT ![t].pc = "select", ![t].task = "running"]
    /\ UNCHANGED <<monVars, jemVars, faults, poolVars, credVars, aclVars, restVars>>

\* The caller's context is cancelled, or its deadline passes, at any time.
CtxDone(t, e) ==
    /\ runs[t].ctx = NoErr
    /\ runs' = [runs EXCEPT ![t].ctx = e]
    /\ UNCHANGED <<monVars, jemVars, faults, poolVars, credVars, aclVars, restVars>>

\* controllerroot.go:720, err := f().
TaskReturns(t, e) ==
    /\ runs[t].task = "running"
    /\ runs' = [runs EXCEPT ![t].task = "send", ![t].f = e]
    /\ UNCHANGED <<monVars, jemVars, faults, poolVars, credVars, aclVars, restVars>>

\* controllerroot.go:722 and 730-731: the task's send on the unbuffered
\* channel meets the caller's receive, and the caller returns
\* errgo.Mask(err, errgo.Any).
Deliver(t) ==
    /\ runs[t].task = "send"
    /\ runs[t].pc = "select"
    /\ runs' = [runs EXCEPT ![t].task = "sent", ![t].pc = "returned",
                            ![t].ret = Mask(runs[t].f, {runs[t].f.cause})]
    /\ UNCHANGED <<monVars, jemVars, faults, poolVars, credVars, aclVars, restVars>>

\* A task whose select has the send alone.
TaskDoneReadyNever(t) == FALSE

\* controllerroot.go:723, case <-ctx.Done() of the task's select: it can be
\* taken once the context is done.
TaskDoneReady(t) == DoneReady(t)

\* controllerroot.go:723-726: the task takes <-ctx.Done(), logs an error
\* result and drops it.
TaskDrops(t) ==
    /\ runs[t].task = "send"
    /\ TaskDoneReady(t)
    /\ runs' = [runs EXCEPT ![t].task = "dropped", ![t].logged = (runs[t].f # NoErr)]
    /\ UNCHANGED <<monVars, jemVars, faults, poolVars, credVars, aclVars, restVars>>

\* controllerroot.go:732-733: the caller takes <-ctx.Done() and returns
\* errgo.Mask(ctx.Err(), errgo.Any).
CallerCancelled(t) ==
    /\ runs[t].pc = "select"
    /\ DoneReady(t)
    /\ runs' = [runs EXCEPT ![t].pc = "returned",
                            ![t].ret = Mask(runs[t].ctx, {runs[t].ctx.cause})]
    /\ UNCHANGED <<monVars, jemVars, faults, poolVars, credVars, aclVars, restVars>>

NextRun ==
    \/ \E t \in Runners : RunStart(t)
    \/ \E t \in Runners : \E e \in {Canceled, DeadlineExceeded} : CtxDone(t, e)
    \/ \E t \in Runners : \E e \in TaskResults : TaskReturns(t, e)
    \/ \E t \in Runners : Deliver(t)
    \/ \E t \in Runners : TaskDrops(t)
    \/ \E t \in Runners : CallerCancelled(t)

SpecRun == InitCM /\ [][NextRun]_vars

\* The scheduler runs a goroutine whose select has a case that is ready: a
\* task that has its result takes the send or <-ctx.Done() when one of
\* them stays possible.
SpecRunFair ==
    InitCM /\ [][NextRun]_vars /\ \A t \in Runners : WF_vars(Deliver(t) \/ TaskDrops(t))

(***************************************************************************)
(* The credential engine: JEM.UpdateCredential (part_001:662-710),         *)
(* JEM.ControllerUpdateCredentials (714-735) and                           *)
(* JEM.updateControllerCredential (741-784).                               *)
(***************************************************************************)

\* A result that carries the failure of a push.
UpdateCredentialResultSurfaced(failed) ==
    IF failed = {} THEN NoErr ELSE Notef(NoErr, "cannot update credential")

\* part_001:709, return nil: the failures of the pushes were logged
\* (690-697) and are not part of the result.
UpdateCredentialResult(failed) == NoErr

\* A push whose flag is cleared whatever the controller answered.
ClearsAfterAny(err) == TRUE

\* part_001:772-775: clearCredentialUpdate is reached only when the remote
\* call returned no error.
ClearsAfter(err) == err = NoErr

\* A credential engine at work: the credential is deployed to some
\* controllers, and the other credential may be waiting for the drain.
InitCredEngine ==
    /\ \E ctls \in SUBSET Controllers :
          /\ credCtls = ctls
          /\ credOn = ctls
          /\ remoteCred = [c \in Controllers |-> [cr \in CredPaths |->
                IF cr = OtherCred \/ c \in ctls THEN "updated" ELSE "none"]]
    /\ \E ctls \in {{}, Controllers} :
          pending = [c \in Controllers |-> IF c \in ctls THEN <<OtherCred>> ELSE <<>>]
    /\ revoked = [cr \in CredPaths |-> FALSE]
    /\ upd = IdleUC
    /\ pushers = [c \in Controllers |-> NoPusher]
    /\ dr = IdleDrain
    /\ models = [p \in Paths |-> NoRow]
    /\ audit = <<>>
    /\ remote = [c \in Controllers |-> [p \in Paths |-> NoUUID]]
    /\ uuidNext = 0
    /\ calls = [k \in Calls |-> IdleCall]

\* part_001:662-665, UpdateCredential(ctx, cred) is called and persists the
\* credential: the stored document takes the argument's content; its
\* controllers set is kept.
UCPersist(arg, rev) ==
    /\ upd.pc = "idle"
    /\ LET call == [IdleUC EXCEPT !.arg = arg, !.rev = rev]
       IN  \/ /\ revoked' = [revoked EXCEPT ![TheCred] = rev]
              /\ upd' = [call EXCEPT !.pc = "reload"]
              /\ UNCHANGED faults
           \/ /\ Fault
              /\ upd' = [call EXCEPT !.pc = "returned",
                                    !.ret = Notef(NoErr, "cannot update local database")]
              /\ UNCHANGED revoked
    /\ UNCHANGED <<pending, remoteCred, pushers, dr>>
    /\ UNCHANGED <<monVars, jemVars, poolVars, runVars, aclVars, restVars>>

\* part_001:666-669, c, err := j.DB.Credential(ctx, cred.Path).
UCReload ==
    /\ upd.pc = "reload"
    /\ \/ /\ upd' = [upd EXCEPT !.pc = "mark", !.loaded = TRUE,
                                !.c = [controllers |-> credCtls, revoked |-> revoked[TheCred]]]
          /\ UNCHANGED faults
       \/ /\ Fault
          /\ upd' = [upd EXCEPT !.pc = "returned", !.ret = Mask(New("cannot get credential"), {})]
    /\ UNCHANGED <<pending, revoked, remoteCred, pushers, dr>>
    /\ UNCHANGED <<monVars, jemVars, poolVars, runVars, aclVars, restVars>>

\* part_001:670-700: setCredentialUpdates on the controllers of the
\* argument, whose failure is only logged; then n and ch are set up and one
\* goroutine is started for each controller of the reloaded document.
UCMark ==
    /\ upd.pc = "mark"
    /\ \/ /\ pending' = SetCredentialUpdates(upd.arg, TheCred)
          /\ UNCHANGED faults
       \/ /\ Fault
          /\ UNCHANGED pending
    /\ upd' = [upd EXCEPT !.pc = "wait", !.n = Cardinality(upd.c.controllers)]
    /\ pushers' = [c \in Controllers |->
          IF c \in upd.c.controllers THEN [pc |-> "push", err |-> NoErr] ELSE NoPusher]
    /\ UNCHANGED <<revoked, remoteCred, dr>>
    /\ UNCHANGED <<monVars, jemVars, poolVars, runVars, aclVars, restVars>>

\* part_001:690 and 741-774, the goroutine for the controller c calls
\* updateControllerCredential(ctx, ctlPath, cred.Path, nil, c): it opens a
\* connection and revokes or updates the credential on the controller.  A
\* failure of either is logged (691-697) and the goroutine sends its token.
PushRemote(c) ==
    /\ pushers[c].pc = "push"
    /\ \/ /\ remoteCred' = Pushed(c, TheCred, upd.c.revoked)
          /\ credOn' = credOn \cup {c}
          /\ pushers' = [pushers EXCEPT ![c] =
                IF ClearsAfter(NoErr) THEN [pc |-> "clear", err |-> NoErr]
                ELSE [pc |-> "done", err |-> NoErr]]
          /\ upd' = [upd EXCEPT !.ch = IF ClearsAfter(NoErr) THEN @ ELSE @ + 1]
          /\ UNCHANGED faults
       \/ /\ Fault
          /\ LET err == Notef(NoErr, "cannot update credentials")
             IN  /\ pushers' = [pushers EXCEPT ![c] =
                       IF ClearsAfter(err) THEN [pc |-> "clear", err |-> err]
                       ELSE [pc |-> "done", err |-> err]]
                 /\ upd' = IF ClearsAfter(err) THEN upd
                          ELSE [upd EXCEPT !.ch = @ + 1, !.failed = @ \cup {c}]
          /\ UNCHANGED <<remoteCred, credOn>>
    /\ UNCHANGED <<pending, revoked, dr>>
    /\ UNCHANGED <<models, credCtls, audit, remote, uuidNext, calls>>
    /\ UNCHANGED <<monVars, poolVars, runVars, aclVars, restVars>>

\* part_001:775-783 and 684-686: clearCredentialUpdate, whose failure is
\* only logged; updateControllerCredential returns nil and the goroutine
\* sends its token.
PushClear(c) ==
    /\ pushers[c].pc = "clear"
    /\ \/ /\ pending' = ClearCredentialUpdate(c, TheCred)
          /\ UNCHANGED faults
       \/ /\ Fault
          /\ UNCHANGED pending
    /\ pushers' = [pushers EXCEPT ![c].pc = "done"]
    /\ upd' = [upd EXCEPT !.ch = @ + 1]
    /\ UNCHANGED <<revoked, remoteCred, dr>>
    /\ UNCHANGED <<monVars, jemVars, poolVars, runVars, aclVars, restVars>>

\* The caller's context is cancelled while the call waits.
UCCancel ==
    /\ upd.pc = "wait"
    /\ ~upd.ctx
    /\ upd' = [upd EXCEPT !.ctx = TRUE]
    /\ UNCHANGED <<pending, revoked, remoteCred, pushers, dr>>
    /\ UNCHANGED <<monVars, jemVars, faults, poolVars, runVars, aclVars, restVars>>

\* part_001:702-705: the select takes a token from ch.
UCReceive ==
    /\ upd.pc = "wait"
    /\ upd.n > 0
    /\ upd.ch > 0
    /\ upd' = [upd EXCEPT !.n = @ - 1, !.ch = @ - 1]
    /\ UNCHANGED <<pending, revoked, remoteCred, pushers, dr>>
    /\ UNCHANGED <<monVars, jemVars, faults, poolVars, runVars, aclVars, restVars>>

\* part_001:702-707: the select takes <-ctx.Done(); the case is empty, and
\* the loop goes round with n as it was.  Only the first time is a step.
UCDone ==
    /\ upd.pc = "wait"
    /\ upd.n > 0
    /\ upd.ctx
    /\ ~upd.spun
    /\ upd' = [upd EXCEPT !.spun = TRUE]
    /\ UNCHANGED <<pending, revoked, remoteCred, pushers, dr>>
    /\ UNCHANGED <<monVars, jemVars, faults, poolVars, runVars, aclVars, restVars>>

\* part_001:702 and 709: n is 0, the loop ends and the call returns.
UCReturn ==
    /\ upd.pc = "wait"
    /\ upd.n = 0
    /\ upd' = [upd EXCEPT !.pc = "returned", !.ret = UpdateCredentialResult(upd.failed)]
    /\ UNCHANGED <<pending, revoked, remoteCred, pushers, dr>>
    /\ UNCHANGED <<monVars, jemVars, faults, poolVars, runVars, aclVars, restVars>>

\* part_001:714-724, ControllerUpdateCredentials(ctx, ctlPath): the
\* controller document is read, with its UpdateCredentials list, and a
\* connection is opened; a failure of either is returned: the error of
\* the store with its not-found cause kept (717), the error of the dial
\* without a cause (721).
DrainStart(c) ==
    /\ dr.pc = "idle"
    /\ \/ /\ dr' = [IdleDrain EXCEPT !.pc = "loop", !.ctl = c, !.list = PendingList(c), !.idx = 1]
          /\ UNCHANGED faults
       \/ /\ Fault
          /\ \E e \in {Mask(Err(ErrNotFound, "controller not found"), {ErrNotFound}),
                        Mask(Err("", "cannot get controller"), {ErrNotFound}),
                        Notef(NoErr, "cannot connect to controller")} :
                dr' = [IdleDrain EXCEPT !.pc = "returned", !.ctl = c, !.err = e]
    /\ UNCHANGED <<pending, revoked, remoteCred, upd, pushers>>
    /\ UNCHANGED <<monVars, jemVars, poolVars, runVars, aclVars, restVars>>

\* part_001:724-732 and 755-774, updateControllerCredential for the next
\* credential of the list: the credential document is read from the store
\* (757), and then, in a second call, it is revoked or updated on the
\* controller as the document read says (764-771).  A failure of either is
\* logged (726-731) and the loop goes on.
DrainPush ==
    /\ dr.idx <= Len(dr.list)
    /\ LET cr == dr.list[dr.idx]
       IN  \/ /\ dr.pc = "loop"
              /\ \/ /\ dr' = [dr EXCEPT !.pc = "push", !.rev = revoked[cr]]
                    /\ UNCHANGED faults
                 \/ /\ Fault
                    /\ dr' = [dr EXCEPT !.idx = @ + 1, !.failed = @ \cup {cr}]
              /\ UNCHANGED <<remoteCred, credOn>>
           \/ /\ dr.pc = "push"
              /\ \/ /\ remoteCred' = Pushed(dr.ctl, cr, dr.rev)
                    /\ credOn' = IF cr = TheCred THEN credOn \cup {dr.ctl} ELSE credOn
                    /\ dr' = IF ClearsAfter(NoErr) THEN [dr EXCEPT !.pc = "clear"]
                              ELSE [dr EXCEPT !.pc = "loop", !.idx = @ + 1]
                    /\ UNCHANGED faults
                 \/ /\ Fault
                    /\ dr' = IF ClearsAfter(Notef(NoErr, "cannot update credentials"))
                              THEN [dr EXCEPT !.pc = "clear", !.failed = @ \cup {cr}]
                              ELSE [dr EXCEPT !.pc = "loop", !.idx = @ + 1,
                                              !.failed = @ \cup {cr}]
                    /\ UNCHANGED <<remoteCred, credOn>>
    /\ UNCHANGED <<pending, revoked, upd, pushers>>
    /\ UNCHANGED <<models, credCtls, audit, remote, uuidNext, calls>>
    /\ UNCHANGED <<monVars, poolVars, runVars, aclVars, restVars>>

\* part_001:775-783: clearCredentialUpdate, whose failure is only logged.
DrainClear ==
    /\ dr.pc = "clear"
    /\ \/ /\ pending' = ClearCredentialUpdate(dr.ctl, dr.list[dr.idx])
          /\ UNCHANGED faults
       \/ /\ Fault
          /\ UNCHANGED pending
    /\ dr' = [dr EXCEPT !.pc = "loop", !.idx = @ + 1]
    /\ UNCHANGED <<revoked, remoteCred, upd, pushers>>
    /\ UNCHANGED <<monVars, jemVars, poolVars, runVars, aclVars, restVars>>

\* part_001:734: the list is done and ControllerUpdateCredentials returns nil.
DrainReturn ==
    /\ dr.pc = "loop"
    /\ dr.idx > Len(dr.list)
    /\ dr' = [dr EXCEPT !.pc = "returned"]
    /\ UNCHANGED <<pending, revoked, remoteCred, upd, pushers>>
    /\ UNCHANGED <<monVars, jemVars, faults, poolVars, runVars, aclVars, restVars>>

\* The monitor has the answer of the drain.
DrainForget ==
    /\ dr.pc = "returned"
    /\ dr' = IdleDrain
    /\ UNCHANGED <<pending, revoked, remoteCred, upd, pushers>>
    /\ UNCHANGED <<monVars, jemVars, faults, poolVars, runVars, aclVars, restVars>>

NextCred ==
    \/ \E arg \in SUBSET Controllers : \E rev \in BOOLEAN : UCPersist(arg, rev)
    \/ UCReload
    \/ UCMark
    \/ \E c \in Controllers : PushRemote(c)
    \/ \E c \in Controllers : PushClear(c)
    \/ UCCancel
    \/ UCReceive
    \/ UCDone
    \/ UCReturn
    \/ \E c \in Controllers : DrainStart(c)
    \/ DrainPush
    \/ DrainClear
    \/ DrainReturn
    \/ DrainForget

\* A gateway process that runs the credential engine.
InitCred == InitNoMonitor /\ InitCredEngine /\ InitPool /\ InitRun /\ InitAclQuiet /\ InitRest

SpecCred == InitCred /\ [][NextCred]_vars

(***************************************************************************)
(* JEM.GrantModel and JEM.RevokeModel (part_001:786-809).                  *)
(***************************************************************************)

\* jimmdb/update.go:21-26, Update.AddToSet: the value is pushed into the
\* field unless it is already present.
AddToSet(set, value) == set \cup {value}

\* jimmdb/update.go:28-33, Update.Pull: all instances of the value are
\* pulled from the field.
Pull(set, value) == set \ {value}

\* DB.GrantModel and DB.RevokeModel: the user is added to, or pulled from,
\* the ACL field of the access level.
AclApply(op, a, user, access) ==
    [a EXCEPT ![access] = IF op = "grant" THEN AddToSet(@, user) ELSE Pull(@, user)]

\* A call that puts the Model row back when the controller refuses.
AclAfterRemoteFailureRolledBack(before, current) == before

\* part_001:792-794 and 804-807: the controller's error is returned and
\* the Model row stays as the local update left it.
AclAfterRemoteFailure(before, current) == current

\* part_001:787-790 and 799-802, GrantModel or RevokeModel is called and
\* updates the Model row; a failure is returned at once.
AclLocal(op, user, access) ==
    /\ gr.pc = "idle"
    /\ LET call == [IdleGrant EXCEPT !.op = op, !.user = user, !.access = access,
                                     !.before = acl, !.prev = gr.prev]
       IN  \/ /\ acl' = AclApply(op, acl, user, access)
              /\ gr' = [call EXCEPT !.pc = "remote", !.localOK = TRUE]
              /\ UNCHANGED faults
           \/ /\ Fault
              /\ gr' = [call EXCEPT !.pc = "returned",
                                    !.ret = Mask(New("cannot update model"), {})]
              /\ UNCHANGED acl
    /\ UNCHANGED remoteAcl
    /\ UNCHANGED <<monVars, jemVars, poolVars, runVars, credVars, restVars>>

\* part_001:791-795 and 803-808, the change is mirrored on the controller
\* with client.GrantModel or client.RevokeModel; a failure is returned.
AclRemote ==
    /\ gr.pc = "remote"
    /\ \/ /\ remoteAcl' = AclApply(gr.op, remoteAcl, gr.user, gr.access)
          /\ gr' = [gr EXCEPT !.pc = "returned", !.contacted = TRUE, !.ret = NoErr]
          /\ UNCHANGED <<acl, faults>>
       \/ /\ Fault
          /\ acl' = AclAfterRemoteFailure(gr.before, acl)
          /\ gr' = [gr EXCEPT !.pc = "returned", !.contacted = TRUE,
                              !.ret = Mask(New("controller error"), {})]
          /\ UNCHANGED remoteAcl
    /\ UNCHANGED <<monVars, jemVars, poolVars, runVars, credVars, restVars>>

\* The caller has its answer; a GrantModel that succeeded is remembered
\* for the call that follows it.
AclForget ==
    /\ gr.pc = "returned"
    /\ gr' = [IdleGrant EXCEPT !.prev =
          IF gr.op = "grant" /\ gr.ret = NoErr
          THEN [user |-> gr.user, access |-> gr.access, before |-> gr.before]
          ELSE NoGrant]
    /\ UNCHANGED <<acl, remoteAcl>>
    /\ UNCHANGED <<monVars, jemVars, faults, poolVars, runVars, credVars, restVars>>

NextAcl ==
    \/ \E op \in {"grant", "revoke"} : \E user \in Users : \E access \in Levels :
          AclLocal(op, user, access)
    \/ AclRemote
    \/ AclForget

\* A model with any access lists, mirrored on its controller.
InitAclAny ==
    /\ acl \in [Levels -> SUBSET Users]
    /\ remoteAcl = acl
    /\ gr = IdleGrant

InitAcl ==
    InitNoMonitor /\ InitJEM /\ InitPool /\ InitRun /\ InitCredQuiet /\ InitAclAny /\ InitRest

SpecAcl == InitAcl /\ [][NextAcl]_vars

(***************************************************************************)
(* JEM.DestroyModel (part_001:811-835) and controllerRoot.modelInfo        *)
(* (internal/jujuapi/controllerroot.go:392-432).                           *)
(***************************************************************************)

\* How many entries the audit log may get.
MaxAudit == 2

\* jujuparams.CodeHasPersistentStorage and jujuparams.CodeUnauthorized.
CodeHasPersistentStorage == "model contains persistent storage"
CodeUnauthorized == "unauthorized access"

\* A life that is set to dying whatever the controller answered.
LifeAfterDestroyAlways(p, upErr) == [life EXCEPT ![p] = "dying"]

\* part_001:816-819: SetModelLife(..., "dying") is reached only when
\* client.DestroyModel returned no error.
LifeAfterDestroy(p, upErr) ==
    IF upErr = NoErr THEN [life EXCEPT ![p] = "dying"] ELSE life

\* A reaping of every model the controller refuses to show.
ReapsAnyUnauthorized(l, code) == code = CodeUnauthorized

\* controllerroot.go:414: the model was dying and the controller answered
\* with the unauthorized code.
Reaps(l, code) == l = "dying" /\ code = CodeUnauthorized

\* The row of the path is the row of the model (controller, uuid).
RowIs(p, c, u) == models[p] # NoRow /\ models[p].controller = c /\ models[p].uuid = u

\* part_001:811-818, DestroyModel(ctx, conn, model, destroyStorage): the
\* caller hands over a model document it has read, and client.DestroyModel
\* is called for it whatever has become of the row and of the model on the
\* controller since; a controller that no longer has the model answers
\* with an error.  The error is returned masked, keeping the
\* has-persistent-storage code.
DMUpstream(p) ==
    \/ /\ dm.pc \in {"idle", "returned"}
       /\ models[p] # NoRow
       /\ Len(audit) < MaxAudit
       /\ dm' = [IdleDestroy EXCEPT !.pc = "doc", !.path = p,
                                    !.ctl = models[p].controller, !.uuid = models[p].uuid]
       /\ UNCHANGED <<life, upDying, faults>>
    \/ /\ dm.pc = "doc" /\ dm.path = p
       /\ \/ /\ remote[dm.ctl][p] = dm.uuid
             /\ upDying' = upDying \cup {p}
             /\ dm' = [dm EXCEPT !.pc = "local"]
             /\ UNCHANGED <<life, faults>>
          \/ /\ \E code \in {CodeHasPersistentStorage, CodeBadRequest, ErrNotFound} :
                   /\ \/ /\ remote[dm.ctl][p] = dm.uuid
                         /\ code # ErrNotFound
                         /\ Fault
                      \/ /\ remote[dm.ctl][p] # dm.uuid
                         /\ code = ErrNotFound
                         /\ UNCHANGED faults
                   /\ life' = LifeAfterDestroy(p, Err(code, "cannot destroy model"))
                   /\ dm' = [dm EXCEPT !.pc = "returned",
                         !.upErr = Err(code, "cannot destroy model"),
                         !.ret = Mask(Err(code, "cannot destroy model"),
                                      {CodeHasPersistentStorage})]
             /\ UNCHANGED upDying
    /\ UNCHANGED mi
    /\ UNCHANGED <<monVars, jemVars, poolVars, runVars, credVars, aclVars, laterVars>>

\* part_001:819-834: SetModelLife on the row of (controller, UUID), which
\* changes nothing when that row is gone, and then AppendAudit; nil is
\* returned.
DMLocal ==
    /\ \/ /\ dm.pc = "local"
          /\ life' = IF RowIs(dm.path, dm.ctl, dm.uuid)
                      THEN LifeAfterDestroy(dm.path, NoErr) ELSE life
          /\ dm' = [dm EXCEPT !.pc = "audit"]
          /\ UNCHANGED audit
       \/ /\ dm.pc = "audit"
          /\ audit' = Append(audit, [type |-> "model-destroyed", id |-> dm.path,
                                     uuid |-> dm.uuid])
          /\ dm' = [dm EXCEPT !.pc = "returned", !.ret = NoErr]
          /\ UNCHANGED life
    /\ UNCHANGED <<upDying, mi, faults>>
    /\ UNCHANGED <<models, credCtls, remote, credOn, uuidNext, calls>>
    /\ UNCHANGED <<monVars, poolVars, runVars, credVars, aclVars, laterVars>>

\* part_001:819-834 when the store fails: SetModelLife fails and the life
\* stays as it was (820-822), AppendAudit fails and the audit log stays as
\* it was (829-833); either failure is logged, the call goes on and nil is
\* returned.
DMLocalFails ==
    /\ Fault
    /\ \/ /\ dm.pc = "local"
          /\ dm' = [dm EXCEPT !.pc = "audit"]
       \/ /\ dm.pc = "audit"
          /\ dm' = [dm EXCEPT !.pc = "returned", !.ret = NoErr]
    /\ UNCHANGED <<life, upDying, mi>>
    /\ UNCHANGED <<models, credCtls, audit, remote, credOn, uuidNext, calls>>
    /\ UNCHANGED <<monVars, poolVars, runVars, credVars, aclVars, laterVars>>

\* The controller removes a model it was destroying.
UpstreamRemoved(p) ==
    /\ p \in upDying
    /\ \E c \in Controllers :
          /\ remote[c][p] # NoUUID
          /\ remote' = [remote EXCEPT ![c][p] = NoUUID]
    /\ UNCHANGED <<models, credCtls, audit, credOn, uuidNext, calls>>
    /\ UNCHANGED <<monVars, faults, poolVars, runVars, credVars, aclVars, lifeVars, laterVars>>

\* What a modelInfo call is given: a tag that does not parse, a model the
\* caller may not read, a model stored without its cloud, or none of these.
MIInputs == {"ok", "badtag", "denied", "legacy"}

\* controllerroot.go:393-409 with getModel, 604-657.  modelInfo(ctx, arg,
\* localOnly): getModel parses the tag (607-610, bad request), reads the
\* Model row (611-614: not found, or a failure of the store, which has no
\* cause), checks the access (618-620, the cause kept) and, for a model
\* stored without its cloud, asks the controller for it (624-657: the
\* failure of the call is returned masked; a cloud tag or a credential tag
\* of the answer that does not parse is bad data, without cause, 631-638;
\* a credential of a local user is refused by user, 700-703, with the bad
\* request cause, which is kept, 641-644; the failure of UpdateLegacyModel
\* is only logged).  The local info is made of the document
\* (403-406, a failure has no cause); with localOnly that is the answer.
MIGet(p, localOnly, in) ==
    LET call == [IdleInfo EXCEPT !.path = p]
        doc == [call EXCEPT !.ctl = models[p].controller, !.uuid = models[p].uuid,
                            !.life = life[p], !.localOnly = localOnly]
        kept == {CodeBadRequest, ErrUnauthorized, ErrNotFound}
        local(d) == IF d.localOnly
                    THEN [d EXCEPT !.pc = "returned", !.info = <<d.uuid, d.life>>]
                    ELSE [d EXCEPT !.pc = "fetch"]
    IN  /\ \/ /\ mi.pc \in {"idle", "returned"}
              /\ \/ /\ in = "badtag"
                    /\ mi' = [call EXCEPT !.pc = "returned",
                          !.ret = Mask(Err(CodeBadRequest, "invalid model tag"), kept)]
                    /\ UNCHANGED faults
                 \/ /\ in # "badtag" /\ models[p] = NoRow
                    /\ mi' = [call EXCEPT !.pc = "returned",
                          !.ret = Mask(Err(ErrNotFound, "model not found"), kept)]
                    /\ UNCHANGED faults
                 \/ /\ in # "badtag"
                    /\ Fault
                    /\ mi' = [call EXCEPT !.pc = "returned",
                          !.ret = Mask(Mask(Err("", "cannot get model"), {ErrNotFound}), kept)]
                 \/ /\ in = "denied" /\ models[p] # NoRow
                    /\ mi' = [doc EXCEPT !.pc = "returned",
                          !.ret = Mask(Err(ErrUnauthorized, "unauthorized"), kept)]
                    /\ UNCHANGED faults
                 \/ /\ in = "legacy" /\ models[p] # NoRow
                    /\ mi' = [doc EXCEPT !.pc = "legacy"]
                    /\ UNCHANGED faults
                 \/ /\ in = "ok" /\ models[p] # NoRow
                    /\ \/ /\ mi' = local(doc)
                          /\ UNCHANGED faults
                       \/ /\ Fault
                          /\ mi' = [doc EXCEPT !.pc = "returned",
                                !.ret = Mask(Err("", "cannot convert model"), {})]
           \/ /\ mi.pc = "legacy" /\ mi.path = p /\ mi.localOnly = localOnly /\ in = "legacy"
              /\ \/ /\ remote[mi.ctl][p] = mi.uuid
                    /\ \/ /\ mi' = local(mi)
                          /\ UNCHANGED faults
                       \/ /\ \E err \in {Notef(NoErr, "bad data from controller"),
                                         Mask(WithCausef(NoErr, CodeBadRequest,
                                                         "unsupported local user"),
                                              {CodeBadRequest})} :
                                mi' = [mi EXCEPT !.pc = "returned", !.ret = Mask(err, kept)]
                          /\ UNCHANGED faults
                       \/ /\ Fault
                          /\ mi' = [mi EXCEPT !.pc = "returned",
                                !.ret = Mask(Mask(Err(CodeBadRequest, "cannot get model info"),
                                                  {}), kept)]
                 \/ /\ remote[mi.ctl][p] # mi.uuid
                    /\ mi' = [mi EXCEPT !.pc = "returned",
                          !.ret = Mask(Mask(Err(CodeUnauthorized, "unauthorized access"),
                                            {}), kept)]
                    /\ UNCHANGED faults
        /\ UNCHANGED <<life, upDying, dm>>
        /\ UNCHANGED <<monVars, jemVars, poolVars, runVars, credVars, aclVars, laterVars>>

\* controllerroot.go:410-431 with fetchModelInfo, 659-680.  The controller
\* shows the model, or refuses with the unauthorized code (it does so for a
\* model it has removed), or the call fails otherwise: the connection is
\* not opened (661-664), the deadline passes (672), the answer has not one
\* result (674-676).  A dying model that is refused is then deleted by
\* (controller, UUID) in a call of its own, and the Unauthorized cause is
\* returned; any other failure is logged and the local info is returned.
MIFetch ==
    /\ \/ /\ mi.pc = "fetch"
          /\ LET gone == remote[mi.ctl][mi.path] # mi.uuid
                 local == <<mi.uuid, mi.life>>
             IN  \/ /\ ~gone
                    /\ mi' = [mi EXCEPT !.pc = "returned", !.info = local]
                    /\ UNCHANGED faults
                 \/ /\ \E code \in {CodeUnauthorized, CodeBadRequest} :
                          /\ \/ /\ gone /\ code = CodeUnauthorized
                                /\ UNCHANGED faults
                             \/ /\ ~(gone /\ code = CodeUnauthorized)
                                /\ Fault
                          /\ IF Reaps(mi.life, code)
                             THEN mi' = [mi EXCEPT !.pc = "reap", !.code = code]
                             ELSE mi' = [mi EXCEPT !.pc = "returned", !.code = code,
                                                   !.info = local]
          /\ UNCHANGED models
       \/ /\ mi.pc = "reap"
          /\ models' = [q \in Paths |->
                IF RowIs(q, mi.ctl, mi.uuid) THEN NoRow ELSE models[q]]
          /\ mi' = [mi EXCEPT !.pc = "returned", !.del = "ok",
                !.ret = WithCausef(Err(mi.code, ""), ErrUnauthorized, "")]
          /\ UNCHANGED faults
    /\ UNCHANGED <<life, upDying, dm>>
    /\ UNCHANGED <<credCtls, audit, remote, credOn, uuidNext, calls>>
    /\ UNCHANGED <<monVars, poolVars, runVars, credVars, aclVars, laterVars>>

\* controllerroot.go:414-423 when DeleteModelWithUUID fails, as it can
\* whenever it is called: the failure is logged and the Unauthorized cause
\* is returned.
MIDeleteFails ==
    /\ mi.pc = "reap"
    /\ Fault
    /\ mi' = [mi EXCEPT !.pc = "returned", !.del = "failed",
                        !.ret = WithCausef(Err(mi.code, ""), ErrUnauthorized, "")]
    /\ UNCHANGED <<life, upDying, dm>>
    /\ UNCHANGED <<monVars, jemVars, poolVars, runVars, credVars, aclVars, laterVars>>

NextLife ==
    \/ \E p \in Paths : DMUpstream(p)
    \/ DMLocal
    \/ DMLocalFails
    \/ \E p \in Paths : UpstreamRemoved(p)
    \/ \E p \in Paths : \E localOnly \in BOOLEAN : \E in \in MIInputs : MIGet(p, localOnly, in)
    \/ MIFetch
    \/ MIDeleteFails

\* Every path has a model, created on some controller and alive.
InitLife ==
    /\ InitNoMonitor /\ InitPool /\ InitRun /\ InitCredQuiet /\ InitAclQuiet /\ InitLifeQuiet
    /\ InitLater
    /\ \E on \in [Paths -> Controllers] :
          /\ models = [p \in Paths |-> [uuid |-> RemoteUUID(on[p], p), controller |-> on[p]]]
          /\ remote = [c \in Controllers |-> [p \in Paths |->
                IF c = on[p] THEN RemoteUUID(c, p) ELSE NoUUID]]
    /\ credCtls = {}
    /\ audit = <<>>
    /\ credOn = {}
    /\ uuidNext = 0
    /\ calls = [k \in Calls |-> IdleCall]

SpecLife == InitLife /\ [][NextLife]_vars

(***************************************************************************)
(* The facade dispatcher of a client connection                            *)
(* (internal/jujuapi/controllerroot.go).                                   *)
(***************************************************************************)

\* At most this many calls are dispatched on the connection.
MaxFinds == 3

\* controllerroot.go:328, jujuparams.CodeNotSupported.
CodeNotSupported == "not supported"

\* controllerroot.go:336, the code of rpcreflect.CallNotImplementedError.
CodeNotImplemented == "not implemented"

\* controllerroot.go:123, the cause common.ErrBadId.
ErrBadId == "id not found"

\* The names of the Controller facade constructors, by version.
ControllerNames ==
    [v \in 3..9 |-> <<"ControllerV3", "ControllerV4", "ControllerV5", "ControllerV6",
                      "ControllerV7", "ControllerV8", "ControllerV9">>[v - 2]]

\* controllerroot.go:58-81, the table of the authenticated state: the name
\* of the constructor of every pair.
facades ==
    [f \in ({"Bundle", "Pinger", "UserManager", "ModelSummaryWatcher"} \X {1})
            \cup ({"Cloud"} \X (1..5)) \cup ({"Controller"} \X (3..9))
            \cup ({"JIMM"} \X {1, 2}) \cup ({"ModelManager"} \X (2..5)) |->
        CASE f[1] = "Cloud" ->
                <<"CloudV1", "CloudV2", "CloudV3", "CloudV4", "CloudV5">>[f[2]]
          [] f[1] = "Controller" -> ControllerNames[f[2]]
          [] f[1] = "JIMM" -> "JIMMV2"
          [] f[1] = "ModelManager" ->
                <<"ModelManagerV2", "ModelManagerV3", "ModelManagerAPI",
                  "ModelManagerAPI">>[f[2] - 1]
          [] OTHER -> f[1]]

\* The pairs and the object ids that clients send.
DispPairs ==
    {<<"Admin", 2>>, <<"Admin", 3>>, <<"Pinger", 1>>, <<"Pinger", 2>>, <<"Bundle", 1>>,
     <<"Controller", 2>>, <<"Controller", 3>>, <<"Controller", 8>>, <<"Controller", 9>>,
     <<"JIMM", 1>>, <<"UserManager", 1>>, <<"ModelSummaryWatcher", 1>>}

ObjectIds == {"", "w1"}

\* A table that is the full one from the start.
TableOfAlwaysFull(state) == facades

\* controllerroot.go:113 and the login: r.facades is the unauthenticated
\* table until a login replaces it.
TableOf(state) == IF state = "authenticated" THEN facades ELSE unauthenticatedFacades

\* controllerroot.go:333, a lookup in a Go map: the zero value when absent.
Lookup(table, f) == IF f \in DOMAIN table THEN table[f] ELSE ""

\* No special case for old clients.
OldAdminNever(rootName, version) == FALSE

\* controllerroot.go:326.
OldAdmin(rootName, version) == rootName = "Admin" /\ version < 3

\* A heartbeat for the calls that pass the test of old clients only.
BeatsAfterFindMethodPassedOnly(b, rootName, version) ==
    IF rootName = "Admin" /\ version < 3 THEN b ELSE b + 1

\* controllerroot.go:324, the first statement of FindMethod.
BeatsAfterFindMethod(b, rootName, version) == b + 1

\* controllerroot.go:141-224, ControllerV3 to ControllerV8: the check of the
\* id, then the constructor of the version below, its error masked.
RECURSIVE ControllerV(_, _)
ControllerV(n, id) ==
    IF id # "" THEN Err(ErrBadId, "id not found")
    ELSE IF n = 3 THEN NoErr
    ELSE LET err == ControllerV(n - 1, id)
         IN  IF err # NoErr THEN Mask(err, {}) ELSE NoErr

\* controllerroot.go:227-240, ControllerV9: the generator first, then
\* ControllerV8, both errors masked.
ControllerV9(id, genFails) ==
    IF genFails THEN Mask(New("cannot create generator"), {})
    ELSE LET err == ControllerV(8, id)
         IN  IF err # NoErr THEN Mask(err, {}) ELSE NoErr

\* controllerroot.go:120-279, the error of the constructor rn called with
\* the object id: genFails is fastuuid.NewGenerator failing, apiFails
\* bundle.NewBundleAPIv1 failing, found the watcher registry holding the id.
Constructor(rn, id, genFails, apiFails, found) ==
    CASE rn = "ModelSummaryWatcher" ->
            IF found THEN NoErr ELSE Mask(Err(ErrNotFound, "watcher not found"), {ErrNotFound})
      [] rn = "ControllerV9" -> ControllerV9(id, genFails)
      [] rn \in {"ControllerV3", "ControllerV8"} ->
            ControllerV(IF rn = "ControllerV3" THEN 3 ELSE 8, id)
      [] rn = "Bundle" ->
            IF id # "" THEN Err(ErrBadId, "id not found")
            ELSE IF apiFails THEN Mask(New("cannot create bundle API"), {}) ELSE NoErr
      [] OTHER -> IF id # "" THEN Err(ErrBadId, "id not found") ELSE NoErr

\* controllerroot.go:322-331: the heartbeat, then the refusal of old clients.
FindMethodBegin(c, f, id) ==
    /\ fm[c].pc \in {"idle", "returned"}
    /\ root.finds < MaxFinds
    /\ root' = [root EXCEPT !.beats = BeatsAfterFindMethod(@, f[1], f[2]), !.finds = @ + 1]
    /\ LET call == [IdleFind EXCEPT !.rootName = f[1], !.version = f[2], !.objectId = id]
       IN  fm' = [fm EXCEPT ![c] =
                IF OldAdmin(f[1], f[2])
                THEN [call EXCEPT !.pc = "returned",
                                  !.err = Err(CodeNotSupported,
                                      "JIMM does not support login from old clients")]
                ELSE [call EXCEPT !.pc = "lookup"]]
    /\ UNCHANGED <<monVars, jemVars, faults, poolVars, runVars, credVars, aclVars, lifeVars, fnVars, moreVars>>

\* controllerroot.go:332-340: the lookup under mu, then the not-implemented
\* error of an absent pair.
FindMethodLookup(c) ==
    /\ fm[c].pc = "lookup"
    /\ root.mu = ""
    /\ LET rn == Lookup(TableOf(root.facades), <<fm[c].rootName, fm[c].version>>)
       IN  fm' = [fm EXCEPT ![c] =
                IF rn = ""
                THEN [@ EXCEPT !.pc = "returned", !.at = root.facades,
                               !.err = Err(CodeNotImplemented, "not implemented")]
                ELSE [@ EXCEPT !.pc = "construct", !.at = root.facades, !.rn = rn]]
    /\ UNCHANGED root
    /\ UNCHANGED <<monVars, jemVars, faults, poolVars, runVars, credVars, aclVars, lifeVars, fnVars, moreVars>>

\* controllerroot.go:341 and 120-279: the caller that findMethod returned
\* runs the constructor with the object id.  Bundle (line 136) reads
\* r.identity without taking mu: beside a login that holds mu the read
\* races with the write and yields either value.
ConstructFacade(c) ==
    /\ fm[c].pc = "construct"
    /\ \E genFails \in BOOLEAN, apiFails \in BOOLEAN, found \in BOOLEAN :
          LET err == Constructor(fm[c].rn, fm[c].objectId, genFails, apiFails, found)
              reads == fm[c].rn = "Bundle" /\ fm[c].objectId = ""
              racing == root.mu # "" /\ fm[root.mu].pc \in {"write", "unlock"}
          IN  \E seen \in (IF ~reads THEN {""}
                           ELSE IF racing THEN {root.identity, fm[root.mu].user}
                           ELSE {root.identity}) :
                 fm' = [fm EXCEPT ![c] =
                    [@ EXCEPT !.pc = IF err = NoErr /\ fm[c].rn = "Admin"
                                     THEN "login" ELSE "returned",
                              !.err = err,
                              !.handler = (err = NoErr),
                              !.read = IF ~reads THEN "none"
                                       ELSE IF racing THEN "racing" ELSE "unlocked",
                              !.seen = seen]]
    /\ UNCHANGED root
    /\ UNCHANGED <<monVars, jemVars, faults, poolVars, runVars, credVars, aclVars, lifeVars, fnVars, moreVars>>

\* The login handshake of the Admin facade: the credentials of the request
\* are checked; a failed check leaves the connection as it was.
LoginAuthenticate(c, u, ok) ==
    /\ fm[c].pc = "login"
    /\ fm' = [fm EXCEPT ![c] =
            IF ok THEN [@ EXCEPT !.pc = "lock", !.login = TRUE, !.user = u]
            ELSE [@ EXCEPT !.pc = "returned", !.login = TRUE,
                           !.err = Err(ErrUnauthorized, "could not authenticate")]]
    /\ UNCHANGED root
    /\ UNCHANGED <<monVars, jemVars, faults, poolVars, runVars, credVars, aclVars, lifeVars, fnVars, moreVars>>

\* A successful login takes mu.
LoginLock(c) ==
    /\ fm[c].pc = "lock"
    /\ root.mu = ""
    /\ root' = [root EXCEPT !.mu = c]
    /\ fm' = [fm EXCEPT ![c].pc = "write"]
    /\ UNCHANGED <<monVars, jemVars, faults, poolVars, runVars, credVars, aclVars, lifeVars, fnVars, moreVars>>

\* Under mu the login stores the identity and switches the connection to
\* the table of the authenticated state.
LoginWrite(c) ==
    /\ fm[c].pc = "write"
    /\ root' = [root EXCEPT !.identity = fm[c].user, !.facades = "authenticated"]
    /\ fm' = [fm EXCEPT ![c].pc = "unlock"]
    /\ UNCHANGED <<monVars, jemVars, faults, poolVars, runVars, credVars, aclVars, lifeVars, fnVars, moreVars>>

\* The login releases mu and returns.
LoginUnlock(c) ==
    /\ fm[c].pc = "unlock"
    /\ root' = [root EXCEPT !.mu = ""]
    /\ fm' = [fm EXCEPT ![c].pc = "returned"]
    /\ UNCHANGED <<monVars, jemVars, faults, poolVars, runVars, credVars, aclVars, lifeVars, fnVars, moreVars>>

NextDisp ==
    \/ \E c \in DispCallers, f \in DispPairs, id \in ObjectIds : FindMethodBegin(c, f, id)
    \/ \E c \in DispCallers : FindMethodLookup(c)
    \/ \E c \in DispCallers : ConstructFacade(c)
    \/ \E c \in DispCallers, u \in Users, ok \in BOOLEAN : LoginAuthenticate(c, u, ok)
    \/ \E c \in DispCallers : LoginLock(c)
    \/ \E c \in DispCallers : LoginWrite(c)
    \/ \E c \in DispCallers : LoginUnlock(c)

\* A fresh connection on a gateway whose other parts are at rest.
InitDisp == InitCM

SpecDisp == InitDisp /\ [][NextDisp]_vars

(***************************************************************************)
(* Reading cloud credentials: JEM.selectCredential as JEM.CreateModel      *)
(* calls it (part_001:424-444, 897-926), JEM.Credential (part_001:376-394) *)
(* and the redaction of credential attributes.                             *)
(***************************************************************************)

\* The identities of the callers, and the controller admins among them.
Identities == {"u1", "u2", "ad"}

ControllerAdmins == {"ad"}

\* The clouds a model is created in.
Clouds == {"aws", "gce"}

\* The identity is the user or a controller admin.
CheckIsUser(id, user) == id = user \/ id \in ControllerAdmins

\* The identity is the owner of the stored credential, is in its read ACL
\* or is a controller admin.
CheckCanRead(id, p) == id = p[2] \/ id \in store[p].read \/ id \in ControllerAdmins

\* part_001:898-910: the stored credentials that the query selects and that
\* the CanReadIter lets through.
Matching(id, path, user, cloud) ==
    {p \in CredUniverse :
        /\ store[p] # NoCred
        /\ IF path = ZeroPath THEN p[2] = user /\ p[1] = cloud ELSE p = path
        /\ CheckCanRead(id, p)}

\* A selection that takes one of several credentials.
selectCredentialAny(id, path, user, cloud, iterFails) ==
    LET creds == Matching(id, path, user, cloud)
    IN  IF creds = {} THEN [cred |-> ZeroPath, err |-> NoErr]
        ELSE [cred |-> CHOOSE p \in creds : TRUE, err |-> NoErr]

\* part_001:897-926.
selectCredential(id, path, user, cloud, iterFails) ==
    LET creds == Matching(id, path, user, cloud)
    IN  IF iterFails
        THEN [cred |-> ZeroPath, err |-> Notef(New("iterator"), "cannot query credentials")]
        ELSE CASE Cardinality(creds) = 0 ->
                    [cred |-> ZeroPath,
                     err |-> IF path # ZeroPath
                             THEN WithCausef(NoErr, ErrNotFound, "credential not found")
                             ELSE NoErr]
               [] Cardinality(creds) = 1 ->
                    [cred |-> CHOOSE p \in creds : TRUE, err |-> NoErr]
               [] OTHER ->
                    [cred |-> ZeroPath,
                     err |-> WithCausef(NoErr, ErrAmbiguousChoice,
                                        "more than one possible credential to use")]

\* The usage sender of the pool: the pool has none, it answers, or its
\* GetCredentials fails.
UsageSenders == {"none", "ok", "fails"}

\* part_001:424-444, the start of JEM.CreateModel: only the owner creates a
\* model in their namespace; a pool that has a usage sender asks it for the
\* owner's credentials and a failure ends the call with an error without
\* cause, before any selection; then the credential is selected and the
\* cause of a failed selection is kept.
CMSelectCredential(id, path, user, cloud, usage, iterFails) ==
    /\ LET sel == selectCredential(id, path, user, cloud, iterFails)
           call == [IdleFn EXCEPT !.id = id, !.path = path, !.user = user,
                                  !.cloud = cloud, !.usage = usage]
       IN  fc' = IF ~CheckIsUser(id, user)
                 THEN [call EXCEPT !.kind = "refused",
                                   !.err = Mask(Err(ErrUnauthorized, "unauthorized"),
                                                {ErrUnauthorized})]
                 ELSE IF usage = "fails"
                 THEN [call EXCEPT !.kind = "usage",
                                   !.err = Mask(New("cannot get usage sender credentials"), {})]
                 ELSE [call EXCEPT !.kind = "select", !.failed = iterFails,
                                   !.cred = sel.cred,
                                   !.err = Mask(sel.err, {ErrNotFound, ErrAmbiguousChoice})]
    /\ UNCHANGED store
    /\ UNCHANGED <<monVars, jemVars, faults, poolVars, runVars, credVars, aclVars, lifeVars,
                   dispVars, moreVars>>

\* A reading that tells every caller that the credential is absent.
CredentialResultLeaky(id, path, dbFails) ==
    IF store[path] = NoCred THEN Err(ErrNotFound, "credential not found")
    ELSE IF ~CheckCanRead(id, path) THEN Err(ErrUnauthorized, "unauthorized")
    ELSE NoErr

\* part_001:376-394, the error of JEM.Credential: dbFails is DB.Credential
\* failing with an error that is not the not-found one.
CredentialResult(id, path, dbFails) ==
    IF dbFails THEN Mask(New("cannot get credential"), {ErrNotFound, ErrUnauthorized})
    ELSE IF store[path] = NoCred
    THEN Mask(IF ~CheckIsUser(id, path[2])
              THEN Err(ErrUnauthorized, "unauthorized")
              ELSE Err(ErrNotFound, "credential not found"),
              {ErrNotFound, ErrUnauthorized})
    ELSE IF ~CheckCanRead(id, path)
    THEN Mask(Err(ErrUnauthorized, "unauthorized"), {ErrUnauthorized})
    ELSE NoErr

\* part_001:376-394, JEM.Credential.
Credential(id, path, dbFails) ==
    /\ LET err == CredentialResult(id, path, dbFails)
       IN  fc' = [IdleFn EXCEPT !.kind = "credential", !.id = id, !.path = path,
                                !.failed = dbFails, !.err = err,
                                !.cred = IF err = NoErr THEN path ELSE ZeroPath]
    /\ UNCHANGED store
    /\ UNCHANGED <<monVars, jemVars, faults, poolVars, runVars, credVars, aclVars, lifeVars,
                   dispVars, moreVars>>

\* The attributes of the credentials, the hidden ones among them, and what
\* a credential holds for a key (cloudcredential_test.go:1310-1314).
AttrKeys == {"client-id", "private-key"}

HiddenKeys == {"private-key"}

AttrsOf(keys) == [k \in keys |-> IF k = "private-key" THEN "super-secret" ELSE "1234"]

\* The owner of the credential whose attributes are read.
CredOwner == "u1"

\* A reading that shows a superuser the hidden attributes too.
AttributesSuperuserAll(username, superuser, given, hidden) ==
    IF ~superuser /\ username # CredOwner
    THEN [attrs |-> <<>>, redacted |-> {}, err |-> Err(CodeUnauthorized, "unauthorized access")]
    ELSE IF hidden THEN [attrs |-> given, redacted |-> {}, err |-> NoErr]
    ELSE [attrs |-> [k \in DOMAIN given \ HiddenKeys |-> given[k]],
          redacted |-> DOMAIN given \cap HiddenKeys, err |-> NoErr]

\* JIMM.GetCloudCredentialAttributes as the test table expects it
\* (cloudcredential_test.go:1319-1367): hidden attributes for the owner only,
\* the others for the owner and for superusers, with the hidden keys listed.
Attributes(username, superuser, given, hidden) ==
    IF (hidden /\ username # CredOwner) \/ (~superuser /\ username # CredOwner)
    THEN [attrs |-> <<>>, redacted |-> {}, err |-> Err(CodeUnauthorized, "unauthorized access")]
    ELSE IF hidden THEN [attrs |-> given, redacted |-> {}, err |-> NoErr]
    ELSE [attrs |-> [k \in DOMAIN given \ HiddenKeys |-> given[k]],
          redacted |-> DOMAIN given \cap HiddenKeys, err |-> NoErr]

\* JIMM.GetCloudCredentialAttributes(ctx, user, cred, hidden).
GetCloudCredentialAttributes(username, superuser, keys, hidden) ==
    /\ LET res == Attributes(username, superuser, AttrsOf(keys), hidden)
       IN  fc' = [IdleFn EXCEPT !.kind = "attributes", !.id = username,
                                !.superuser = superuser, !.hidden = hidden,
                                !.given = AttrsOf(keys), !.attrs = res.attrs,
                                !.redacted = res.redacted, !.err = res.err]
    /\ UNCHANGED store
    /\ UNCHANGED <<monVars, jemVars, faults, poolVars, runVars, credVars, aclVars, lifeVars,
                   dispVars, moreVars>>

NextFn ==
    \/ \E id \in Identities, path \in CredUniverse \cup {ZeroPath}, user \in Users,
          cloud \in Clouds, usage \in UsageSenders, iterFails \in BOOLEAN :
            CMSelectCredential(id, path, user, cloud, usage, iterFails)
    \/ \E id \in Identities, path \in CredUniverse, dbFails \in BOOLEAN :
            Credential(id, path, dbFails)
    \/ \E username \in Identities, superuser \in BOOLEAN, keys \in SUBSET AttrKeys,
          hidden \in BOOLEAN :
            GetCloudCredentialAttributes(username, superuser, keys, hidden)

\* Any set of stored credentials, each private to its owner or readable by
\* another user as well.
InitFn ==
    /\ InitNoMonitor /\ InitJEM /\ InitPool /\ InitRun /\ InitCredQuiet /\ InitAclQuiet
    /\ InitLifeQuiet /\ InitDispQuiet /\ InitMore
    /\ store \in [CredUniverse -> {NoCred, [read |-> {}], [read |-> {"u2"}]}]
    /\ fc = IdleFn

SpecFn == InitFn /\ [][NextFn]_vars

(***************************************************************************)
(* The claims about reading credentials.                                   *)
(***************************************************************************)

\* C28: a CreateModel call that passed the owner check, was not ended by
\* the usage sender and whose query did not fail: without a credential path, no readable credential of (owner,
\* cloud) means no error and no credential, exactly one means that one, more
\* than one the ambiguous-choice error; with a path, no readable credential
\* under it means the not-found error.
C28_SelectCredential ==
    (fc.kind = "select" /\ ~fc.failed) =>
        LET found == {p \in CredUniverse :
                        /\ store[p] # NoCred
                        /\ \/ fc.id = p[2] \/ fc.id \in store[p].read
                           \/ fc.id \in ControllerAdmins
                        /\ IF fc.path = ZeroPath
                           THEN p[2] = fc.user /\ p[1] = fc.cloud
                           ELSE p = fc.path}
        IN  /\ (fc.path = ZeroPath /\ Cardinality(found) = 0)
                => fc.err = NoErr /\ fc.cred = ZeroPath
            /\ Cardinality(found) = 1 => fc.err = NoErr /\ fc.cred \in found
            /\ Cardinality(found) > 1
                => fc.err.cause = ErrAmbiguousChoice /\ fc.cred = ZeroPath
            /\ (fc.path # ZeroPath /\ Cardinality(found) = 0)
                => fc.err.cause = ErrNotFound /\ fc.cred = ZeroPath

\* The owner has two readable credentials in the cloud and gave no path.
C28_Witness ==
    /\ fc.kind = "select" /\ fc.path = ZeroPath /\ fc.id = "u1" /\ fc.user = "u1"
    /\ fc.cloud = "aws" /\ ~fc.failed
    /\ store[<<"aws", "u1", "a">>] # NoCred /\ store[<<"aws", "u1", "b">>] # NoCred
    /\ fc.err.cause = ErrAmbiguousChoice

\* C29: a JEM.Credential call whose store read did not fail, by a caller who
\* is neither the user of the path nor a controller admin and who cannot read
\* the credential: the error is the same unauthorized error whether the
\* credential is stored or not; the not-found cause goes only to a caller
\* who passes the identity check for the user of the path.
C29_NoExistenceOracle ==
    (fc.kind = "credential" /\ ~fc.failed) =>
        LET isUser == fc.id = fc.path[2] \/ fc.id \in ControllerAdmins
            reads == store[fc.path] # NoCred /\ (isUser \/ fc.id \in store[fc.path].read)
        IN  /\ (~isUser /\ ~reads)
                => fc.err = Err(ErrUnauthorized, "unauthorized") /\ fc.cred = ZeroPath
            /\ fc.err.cause = ErrNotFound => isUser /\ store[fc.path] = NoCred

\* Another user asked for a credential that is not stored and was refused
\* as unauthorized, while a credential of the same owner that the caller
\* cannot read is stored.
C29_Witness ==
    /\ fc.kind = "credential" /\ ~fc.failed /\ fc.id = "u2"
    /\ store[fc.path] = NoCred
    /\ \E p \in CredUniverse : store[p] = [read |-> {}]
    /\ fc.err.cause = ErrUnauthorized

\* C30: GetCloudCredentialAttributes gives the owner who asks for the hidden
\* attributes all of them; without hidden it gives the owner or a superuser
\* the attributes that are not hidden and the list of the hidden keys; a
\* superuser who is not the owner and asks for hidden attributes, and a
\* caller who is neither owner nor superuser, get the unauthorized error;
\* no hidden attribute is returned to a caller who is not the owner.
C30_AttributeRedaction ==
    fc.kind = "attributes" =>
        LET owner == fc.id = CredOwner
            secret == {k \in DOMAIN fc.given : k = "private-key"}
        IN  /\ (owner /\ fc.hidden)
                => fc.err = NoErr /\ fc.attrs = fc.given /\ fc.redacted = {}
            /\ (~fc.hidden /\ (owner \/ fc.superuser))
                => /\ fc.err = NoErr
                   /\ DOMAIN fc.attrs = DOMAIN fc.given \ secret
                   /\ \A k \in DOMAIN fc.attrs : fc.attrs[k] = fc.given[k]
                   /\ fc.redacted = secret
            /\ (~owner /\ (fc.hidden \/ ~fc.superuser))
                => fc.err.cause = CodeUnauthorized /\ fc.attrs = <<>>
            /\ ~owner => \A k \in DOMAIN fc.attrs : k # "private-key"

\* A superuser who is not the owner read a credential that holds a hidden
\* attribute, without asking for hidden ones.
C30_Witness ==
    /\ fc.kind = "attributes" /\ fc.id = "ad" /\ fc.superuser /\ ~fc.hidden
    /\ DOMAIN fc.given = AttrKeys
    /\ fc.redacted = {"private-key"} /\ DOMAIN fc.attrs = {"client-id"}

(***************************************************************************)
(* The controllers collection of the store, as the tests of               *)
(* internal/jem/jem_test.go drive it.                                      *)
(***************************************************************************)

\* jem_test.go:55-101, AddController(ctl, m): the controller and its model
\* are stored under the path of the controller, the model with its
\* Controller field set to that path; a second call reports already exists.
AddController(c) ==
    /\ mdlRows[c] = NoMdl \/ c \in ctlRows
    /\ LET call == [IdleDelete EXCEPT !.op = "add", !.path = c,
                                      !.before = <<ctlRows, mdlRows>>]
       IN  IF c \in ctlRows
           THEN /\ dc' = [call EXCEPT !.err = Err(ErrAlreadyExists, "already exists")]
                /\ UNCHANGED <<ctlRows, mdlRows>>
           ELSE /\ ctlRows' = ctlRows \cup {c}
                /\ mdlRows' = [mdlRows EXCEPT ![c] = c]
                /\ dc' = call
    /\ UNCHANGED <<monVars, jemVars, faults, poolVars, runVars, credVars, aclVars, lifeVars,
                   dispVars, fnVars, cmdVars, refVars, ovVars>>

\* jem_test.go:195-235, AddModel(m): the model is stored under its path with
\* the Controller field the caller gave; a second call reports already
\* exists.
AddModel(p, ref) ==
    /\ LET call == [IdleDelete EXCEPT !.op = "addmodel", !.path = p,
                                      !.before = <<ctlRows, mdlRows>>]
       IN  IF mdlRows[p] # NoMdl
           THEN /\ dc' = [call EXCEPT !.err = Err(ErrAlreadyExists, "already exists")]
                /\ UNCHANGED mdlRows
           ELSE /\ mdlRows' = [mdlRows EXCEPT ![p] = ref]
                /\ dc' = call
    /\ UNCHANGED ctlRows
    /\ UNCHANGED <<monVars, jemVars, faults, poolVars, runVars, credVars, aclVars, lifeVars,
                   dispVars, fnVars, cmdVars, refVars, ovVars>>

\* jem_test.go:137-149 and 164-172, DeleteController(path): with the
\* controller and its model stored the call returns nil and neither can be
\* read afterwards; without the controller it reports not found.  What
\* becomes of the rows of other paths that name the controller is not
\* shown by the tests: they are all removed or all kept.
DeleteController(c, cascade) ==
    /\ LET call == [IdleDelete EXCEPT !.op = "delete", !.path = c,
                        !.referenced = (\E p \in DelPaths : mdlRows[p] = c),
                        !.before = <<ctlRows, mdlRows>>]
       IN  IF c \notin ctlRows
           THEN /\ dc' = [call EXCEPT !.err = Err(ErrNotFound, "controller not found")]
                /\ UNCHANGED <<ctlRows, mdlRows>>
           ELSE /\ ctlRows' = ctlRows \ {c}
                /\ mdlRows' = [p \in DelPaths |->
                        IF p = c \/ (cascade /\ mdlRows[p] = c) THEN NoMdl ELSE mdlRows[p]]
                /\ dc' = call
    /\ UNCHANGED <<monVars, jemVars, faults, poolVars, runVars, credVars, aclVars, lifeVars,
                   dispVars, fnVars, cmdVars, refVars, ovVars>>

\* jem_test.go:192-211, DeleteModel(path): the model of a stored controller,
\* which is the row under the controller's path, is not removed and the
\* call is forbidden (192-194); any other row stored under the path is
\* removed, whoever inserted it (204-207); without a row the call returns
\* a not-found error and changes nothing (209-211).
DeleteModel(p) ==
    /\ LET call == [IdleDelete EXCEPT !.op = "deletemodel", !.path = p,
                                      !.before = <<ctlRows, mdlRows>>]
           row == IF p \in Paths THEN models[p] # NoRow ELSE mdlRows[p] # NoMdl
       IN  IF p \in ctlRows
           THEN /\ dc' = [call EXCEPT !.err = Err(ErrForbidden,
                              "cannot remove model because it is a controller")]
                /\ UNCHANGED <<models, mdlRows>>
           ELSE IF ~row
           THEN /\ dc' = [call EXCEPT !.err = Err(ErrNotFound, "model not found")]
                /\ UNCHANGED <<models, mdlRows>>
           ELSE /\ dc' = call
                /\ IF p \in Paths
                   THEN models' = [models EXCEPT ![p] = NoRow] /\ UNCHANGED mdlRows
                   ELSE mdlRows' = [mdlRows EXCEPT ![p] = NoMdl] /\ UNCHANGED models
    /\ UNCHANGED <<credCtls, audit, remote, credOn, uuidNext, calls, ctlRows>>
    /\ UNCHANGED <<monVars, faults, poolVars, runVars, credVars, aclVars, lifeVars,
                   dispVars, fnVars, cmdVars, refVars, ovVars>>

NextDel ==
    \/ \E c \in Controllers : AddController(c)
    \/ \E p \in DelPaths, ref \in Controllers \cup {""} : AddModel(p, ref)
    \/ \E c \in Controllers, cascade \in BOOLEAN : DeleteController(c, cascade)
    \/ \E p \in DelPaths : DeleteModel(p)

\* An empty store.
InitDel == InitCM

SpecDel == InitDel /\ [][NextDel]_vars

\* C31: DeleteController of a stored controller fails exactly when a Model
\* row names the controller; a failed deletion leaves the controller rows
\* and the model rows as they were, and after a successful one the
\* controller cannot be read.
C31_DeleteFailsIffReferenced ==
    (dc.op = "delete" /\ dc.path \in dc.before[1]) =>
        /\ (dc.err # NoErr) <=> dc.referenced
        /\ dc.err # NoErr => <<ctlRows, mdlRows>> = dc.before
        /\ dc.err = NoErr => dc.path \notin ctlRows

(***************************************************************************)
(* The migrate command of jimmctl (cmd/jimmctl/cmd/migratemodel.go).       *)
(***************************************************************************)

\* At most this many arguments are given to the command.
MaxArgs == 3

\* The UUIDs that names.IsValidModel accepts, among the ids used.
ValidUUIDs == {"U1", "U2"}

\* The arguments: a string without a dash is a tuple of one part, a string
\* kind-id a tuple of the kind and the id.
ArgStrings ==
    {<<"ctl">>, <<"badtag">>, <<"model", "U1">>, <<"model", "U2">>, <<"model", "zz">>,
     <<"user", "U1">>}

\* A parse that does not look at the kind of the tag.
ParseModelTagAnyKind(arg) == Len(arg) = 2 /\ arg[2] \in ValidUUIDs

\* migratemodel.go:82, names.ParseModelTag(arg) returns no error: the string
\* is a tag of kind model whose id is a valid UUID.
ParseModelTagOK(arg) == Len(arg) = 2 /\ arg[1] = "model" /\ arg[2] \in ValidUUIDs

\* migratemodel.go:77-87, the loop of Init from argument i on.
RECURSIVE InitLoop(_, _, _)
InitLoop(c, args, i) ==
    IF i > Len(args) THEN c
    ELSE IF i = 1 THEN InitLoop([c EXCEPT !.targetController = args[1]], args, 2)
    ELSE IF ~ParseModelTagOK(args[i])
    THEN [c EXCEPT !.err = Err("", <<args[i], " is not a valid model tag">>)]
    ELSE InitLoop([c EXCEPT !.modelTags = Append(@, args[i])], args, i + 1)

\* migratemodel.go:73-89, migrateModelCommand.Init, called once on a new
\* command.
MigrateInit(args) ==
    /\ mc.pc = "new"
    /\ mc' = [(IF Len(args) < 2
               THEN [mc EXCEPT !.err = Err("", "Missing controller and model tag arguments")]
               ELSE InitLoop(mc, args, 1))
              EXCEPT !.pc = "inited", !.args = args]
    /\ UNCHANGED <<monVars, jemVars, faults, poolVars, runVars, credVars, aclVars, lifeVars,
                   dispVars, fnVars, delVars, refVars, ovVars>>

NextCmd == \E n \in 0..MaxArgs : \E args \in [1..n -> ArgStrings] : MigrateInit(args)

\* A command that was just constructed.
InitCmd == InitCM

SpecCmd == InitCmd /\ [][NextCmd]_vars

\* C32: Init returns no error exactly when there are at least two arguments
\* and every argument after the first is a model tag; with fewer than two
\* the error is "Missing controller and model tag arguments", with a
\* malformed tag it names the first malformed argument; when Init returns no
\* error the target controller is the first argument and the model tags are
\* the other arguments in their order.
C32_MigrateInit ==
    mc.pc = "inited" =>
        LET n == Len(mc.args)
            bad == {i \in 2..n : ~(Len(mc.args[i]) = 2 /\ mc.args[i][1] = "model"
                                    /\ mc.args[i][2] \in ValidUUIDs)}
            first == CHOOSE i \in bad : \A j \in bad : i <= j
        IN  /\ mc.err = NoErr <=> (n >= 2 /\ bad = {})
            /\ n < 2 => mc.err.msg = "Missing controller and model tag arguments"
            /\ (n >= 2 /\ bad # {})
                => mc.err.msg = <<mc.args[first], " is not a valid model tag">>
            /\ mc.err = NoErr
                => /\ mc.targetController = mc.args[1]
                   /\ mc.modelTags = SubSeq(mc.args, 2, n)

\* Init accepted a controller name followed by two model tags.
C32_Witness ==
    /\ mc.pc = "inited" /\ mc.err = NoErr
    /\ mc.targetController = <<"ctl">>
    /\ mc.modelTags = << <<"model", "U2">>, <<"model", "U1">> >>

(***************************************************************************)
(* The monitor's claims.                                                   *)
(***************************************************************************)

\* The replicas that are reading the event stream of controller c.
Readers(c) == {r \in Replicas : alive[r] /\ IsReading(r, c)}

\* C1: at every instant each controller has at most one replica running a
\* controller monitor for it, and no replica runs two monitors for it.
C1_AtMostOneMonitor ==
    /\ \A c \in Controllers : Cardinality(Readers(c)) <= 1
    /\ \A r \in Replicas : ~dup[r]

\* Two replicas have swept the same controller: one reads its event stream
\* and holds its lease, the other has finished a sweep without it.
C1_Witness ==
    \E c \in Controllers : \E r1, r2 \in Replicas :
        /\ r1 # r2 /\ alive[r1] /\ alive[r2]
        /\ IsReading(r1, c) /\ leaseOwner[c] = r1
        /\ amPc[r2] = "wait" /\ c \notin monitoring[r2]

\* Replica a has died holding the lease of controller c, whose stored expiry
\* has passed; replica b is alive and its sweep is about to handle c.
HandoverDue(a, b, c) ==
    /\ a # b /\ ~alive[a]
    /\ leaseOwner[c] = a /\ leaseExpiry[c] <= now
    /\ alive[b] /\ amPc[b] = "sweep" /\ todo[b] # <<>>
    /\ Head(todo[b]).path = c

\* C2: lease handover. When the holder of a lease has died and the stored
\* expiry has passed, the sweep of another replica that reaches the
\* controller acquires the lease and starts monitoring it; and as long as
\* the lease of the dead holder is stored no two monitors are running for
\* the controller.
C2_LeaseHandover ==
    /\ [](\A a \in Replicas : \A c \in Controllers :
            (~alive[a] /\ leaseOwner[c] = a)
                => /\ Cardinality(Readers(c)) <= 1
                   /\ \A b \in Replicas : ~dup[b])
    /\ [][\A a, b \in Replicas : \A c \in Controllers :
            (HandoverDue(a, b, c) /\ AmSweep(b))
                => /\ leaseOwner'[c] = b
                   /\ leaseExpiry'[c] = now + leaseExpiryDuration
                   /\ cmPc'[b][c] = "running"
                   /\ c \in monitoring'[b]]_vars

\* The sweeps that C2 is true of: the controller is not in the monitoring
\* set of the sweeping replica, the listing shows the lease as it is
\* stored, and the store does not fail.  Such a sweep takes the lease over
\* from the dead holder.
HandoverWhenNotMonitoring ==
    [][\A a, b \in Replicas : \A c \in Controllers :
          (/\ HandoverDue(a, b, c) /\ AmSweep(b)
           /\ c \notin monitoring[b]
           /\ Head(todo[b]) = [path |-> c, owner |-> a, expiry |-> leaseExpiry[c]]
           /\ amPc'[b] # "returned")
              => /\ leaseOwner'[c] = b
                 /\ leaseExpiry'[c] = now + leaseExpiryDuration
                 /\ cmPc'[b][c] = "running"
                 /\ c \in monitoring'[b]]_vars

\* A step of the allMonitor of replica r, of its goroutines or of a killed
\* controller monitor, or the supervisor's reaction to its death.
InnerStep(r) ==
    \/ AmList(r) \/ AmSweep(r) \/ AmTimer(r) \/ AmDying(r)
    \/ SupRestart(r) \/ SupStopped(r)
    \/ \E c \in Controllers :
          \/ AmRemoved(r, c) \/ AmDrain(r, c)
          \/ GoDead(r, c) \/ GoKill(r, c) \/ GoWait(r, c) \/ CmStop(r, c)

\* C3: a failure of the inner allMonitor is never fatal: once its tomb is
\* dying the inner monitor goes on until the tomb is dead and Monitor.run
\* starts a new allMonitor, so in every reachable state a dying inner monitor
\* has a step to take.
C3_FailureNotFatal ==
    \A r \in Replicas :
        (alive[r] /\ supPc[r] = "run" /\ amDying[r]) => ENABLED InnerStep(r)

\* C4: after Monitor.Kill the allMonitor returns only when every controller
\* monitor it started has terminated and reported its removal, and the
\* shutdown goes on until Monitor.Wait returns.
C4_ShutdownCompletes ==
    \A r \in Replicas :
        (alive[r] /\ mDying[r]) =>
            /\ amPc[r] = "returned" => monitoring[r] = {}
            /\ supPc[r] = "shutdown" => ENABLED InnerStep(r)

(***************************************************************************)
(* The claims about JEM.CreateModel.                                       *)
(***************************************************************************)

\* The UUID is a placeholder: it begins with "creating-".
IsPlaceholder(u) == Len(u) = 2 /\ u[1] = "creating-"

\* The call holds its reserved row and has not updated it yet.
HoldsPlaceholder(call) ==
    call.pc \in {"connect", "cred", "create", "grant", "reconcile", "cleanup"}

\* C5: the UUID of every Model row is the UUID the remote CreateModel
\* returned on the controller recorded in the row, or begins with the
\* placeholder prefix; and a row keeps its placeholder from the reservation
\* until the update that follows a successful create.
C5_RowUUID ==
    /\ \A p \in Paths :
          models[p] # NoRow =>
              \/ IsPlaceholder(models[p].uuid)
              \/ /\ models[p].controller \in Controllers
                 /\ remote[models[p].controller][p] # NoUUID
                 /\ models[p].uuid = remote[models[p].controller][p]
    /\ \A k \in Calls :
          /\ HoldsPlaceholder(calls[k]) =>
                /\ IsPlaceholder(calls[k].placeholder)
                /\ models[calls[k].path].uuid = calls[k].placeholder
          /\ calls[k].pc = "audit" =>
                /\ ~IsPlaceholder(models[calls[k].path].uuid)
                /\ calls[k].trail[Len(calls[k].trail)].err = NoErr

\* One caller's row carries the real UUID of its second candidate while the
\* other caller's row still has its placeholder, its model created remotely.
C5_Witness ==
    \E k, j \in Calls :
        /\ k # j
        /\ calls[k].pc = "audit" /\ Len(calls[k].trail) = 2
        /\ models[calls[k].path].uuid = RemoteUUID(calls[k].cands[2], calls[k].path)
        /\ calls[j].pc = "reconcile"
        /\ IsPlaceholder(models[calls[j].path].uuid)

\* The positions of a call between its reservation and its return.
AfterReservation ==
    {"connect", "cred", "create", "grant", "reconcile", "audit", "cleanup"}

\* C6: a call that fails after its reservation returns through the deferred
\* removal of the reserved row: every failure leads there, the call returns
\* the error it failed with, and on return the path has no row unless the
\* delete failed, which is logged and changes nothing.
C6_CleanupOnFailure ==
    [][\A k \in Calls :
          /\ (calls[k].pc \in AfterReservation \ {"cleanup"}
                  /\ calls'[k].err # NoErr) => calls'[k].pc = "cleanup"
          /\ (calls[k].pc \in AfterReservation /\ calls'[k].pc = "done"
                  /\ calls'[k].ret # NoErr) =>
                /\ calls[k].pc = "cleanup"
                /\ calls'[k].ret = calls[k].err
                /\ models'[calls[k].path] = NoRow \/ calls'[k].leaked
                /\ calls'[k].leaked => models' = models]_vars

\* A call failed after its reservation, the delete of its row failed too,
\* and the row is still there with its placeholder.
C6_Witness ==
    \E k \in Calls :
        /\ calls[k].pc = "done" /\ calls[k].leaked
        /\ calls[k].ret.msg \in {"cannot find suitable controller", "cannot create model",
                                  "cannot update model in database"}
        /\ IsPlaceholder(models[calls[k].path].uuid)

\* The error lets the loop go on to the next candidate.
Retriable(e) == e # NoErr /\ e.cause # "invalid CreateModel request"

\* C7: the candidates are tried in list order; after a retriable failure the
\* call is at the next candidate, or has failed when there is none; after a
\* failure classified as invalid parameters it has stopped with that error;
\* after a success it is past the loop.
C7_CandidateOrder ==
    \A k \in Calls :
        LET call == calls[k]
            t == call.trail
            n == Len(t)
            looping == call.pc \in {"connect", "cred", "create", "grant"}
        IN  /\ n <= Len(call.cands)
            /\ \A i \in 1..n : t[i].ctl = call.cands[i]
            /\ \A i \in 1..(n - 1) : Retriable(t[i].err)
            /\ looping => call.idx = n + 1 /\ call.idx <= Len(call.cands)
            /\ (n > 0 /\ Retriable(t[n].err)) =>
                  IF n < Len(call.cands)
                  THEN looping
                  ELSE /\ call.pc = "cleanup"
                       /\ call.err = Err("", "cannot find suitable controller")
            /\ (n > 0 /\ t[n].err.cause = "invalid CreateModel request") =>
                  /\ call.pc = "cleanup"
                  /\ call.err.msg = "cannot create model"
            /\ (n > 0 /\ t[n].err = NoErr) =>
                  /\ call.pc \in {"reconcile", "audit", "cleanup"}
                  /\ call.ctlPath = t[n].ctl

\* One call stopped at its first candidate of two on invalid parameters; the
\* other went on after "upgrade in progress" and succeeded on its second.
C7_Witness ==
    \E k, j \in Calls :
        /\ calls[k].pc = "cleanup" /\ Len(calls[k].cands) = 2
        /\ Len(calls[k].trail) = 1
        /\ calls[k].trail[1].err.cause = "invalid CreateModel request"
        /\ calls[j].pc = "reconcile" /\ Len(calls[j].trail) = 2
        /\ calls[j].trail[1].err.msg = "upgrade in progress"

\* The candidates of the call whose remote CreateModel succeeded and whose
\* admin grant then failed.
GrantFailedOn(call) ==
    {call.trail[i].ctl : i \in {j \in 1..Len(call.trail) :
                                  call.trail[j].err.msg = "cannot grant model access"}}

\* The caller k returns in this step.
Returns(k) == calls[k].pc \in {"audit", "cleanup"} /\ calls'[k].pc = "done"

\* C8: when the remote CreateModel succeeded on a controller and the admin
\* grant on the new model failed, the call fails, its row is removed and the
\* remote model stays on that controller, whatever the candidate list.
C8_GrantFailureFails ==
    [][\A k \in Calls :
          (Returns(k) /\ GrantFailedOn(calls[k]) # {}) =>
              /\ calls'[k].ret # NoErr
              /\ models'[calls[k].path] = NoRow \/ calls'[k].leaked
              /\ \A c \in GrantFailedOn(calls[k]) :
                    remote'[c][calls[k].path] # NoUUID]_vars

\* Every candidate of the call answered that the model name is in use: each
\* holds a model of that name that the Index does not know.
NameInUseEverywhere(call) ==
    /\ call.trail # <<>>
    /\ Len(call.trail) = Len(call.cands)
    /\ \A i \in 1..Len(call.trail) : call.trail[i].err.msg = "model name in use"

\* C9: after a create left an orphan (remote creation succeeded, admin grant
\* failed, local row deleted), a later CreateModel with the same name returns
\* an error whose cause is AlreadyExists and whose message is "model name in
\* use".
C9_NameInUse ==
    [][\A k \in Calls :
          (Returns(k) /\ NameInUseEverywhere(calls[k])) =>
              /\ calls'[k].ret.cause = ErrAlreadyExists
              /\ calls'[k].ret.msg = "model name in use"]_vars

\* The call uses a credential and has two candidates: the first answered
\* the remote CreateModel with upgrade in progress, the second succeeded.
UpgradeThenSuccess(call) ==
    /\ call.cred /\ Len(call.cands) = 2
    /\ call.trail = <<[ctl |-> call.cands[1], err |-> Err("", "upgrade in progress")],
                      [ctl |-> call.cands[2], err |-> NoErr]>>

\* The caller k returns the model in this step: its reserved row was updated
\* and the audit entry is appended or its failure logged.
ReturnsModel(k) == calls[k].pc = "audit" /\ calls'[k].pc = "done"

\* What C10 says of the row and the audit log when the call returns.
SecondControllerCommitted(k) ==
    LET call == calls[k]
        c2 == call.cands[2]
        p == call.path
    IN  /\ calls'[k].ret = NoErr
        /\ remote'[c2][p] # NoUUID
        /\ models'[p] = [uuid |-> remote'[c2][p], controller |-> c2]
        /\ audit' # audit =>
              audit'[Len(audit')] =
                  [id |-> p, uuid |-> remote'[c2][p], controllerPath |-> c2]
        /\ c2 \in credCtls' /\ c2 \in credOn'

\* C10, as stated: with the first of two candidates answering upgrade in
\* progress and the second succeeding, when the call returns the row carries the real UUID of the
\* second, the audit entry names the second, and the credential's controllers
\* set holds the second and not the first.
C10_SecondOnly ==
    [][\A k \in Calls :
          (ReturnsModel(k) /\ UpgradeThenSuccess(calls[k])) =>
              /\ SecondControllerCommitted(k)
              /\ calls[k].cands[1] \notin credCtls']_vars

\* C10, amended: the row carries the real UUID of the second controller, the
\* audit entry, when it is appended, names the second, and the credential's
\* controllers set holds the second and the first as well, the push to the
\* first and its recording having succeeded before the first answered the
\* remote CreateModel.
C10_SecondAfterUpgrade ==
    [][\A k \in Calls :
          (ReturnsModel(k) /\ UpgradeThenSuccess(calls[k])) =>
              /\ SecondControllerCommitted(k)
              /\ calls[k].cands[1] \in credCtls'
              /\ calls[k].cands[1] \in credOn']_vars

\* The call is about to return after upgrade in progress on its first
\* candidate and success on its second: the row is updated and the audit
\* entry is next.
C10_Witness ==
    \E k \in Calls :
        /\ calls[k].pc = "audit" /\ UpgradeThenSuccess(calls[k])
        /\ models[calls[k].path].controller = calls[k].cands[2]
        /\ calls[k].cands[1] \in credCtls

\* C11: the controllers set of the credential holds only controllers on
\* which a push of the credential has succeeded before: the binding of a
\* controller is recorded only after the push to that controller returned
\* success.
C11_BoundOnlyAfterPush ==
    /\ credCtls \subseteq credOn
    /\ \A k \in Calls :
          (calls[k].pc \in {"create", "grant"} /\ calls[k].cred) =>
              Candidate(calls[k]) \in credOn

\* The credential is bound to one controller; on the other a call's push was
\* refused, the call went on to it from there, and no binding was recorded.
C11_Witness ==
    \E k \in Calls : \E c1, c2 \in Controllers :
        /\ c1 \in credCtls /\ c2 \notin credCtls /\ c2 \notin credOn
        /\ calls[k].cred /\ calls[k].trail # <<>>
        /\ calls[k].trail[1] = [ctl |-> c2, err |-> Err("", "cannot add credential")]

\* The rows of the Index.
Rows == {p \in Paths : models[p] # NoRow}

\* C12: no two Model rows share a UUID, also while several calls hold
\* reserved rows with placeholder UUIDs; a path has one row, and of the
\* calls for one path at most one is past its reservation.
C12_UniqueRows ==
    /\ \A p, q \in Rows : models[p].uuid = models[q].uuid => p = q
    /\ \A p \in Rows : models[p].uuid # NoUUID
    /\ \A k, j \in Calls :
          (k # j /\ calls[k].pc \in AfterReservation
                 /\ calls[j].pc \in AfterReservation) => calls[k].path # calls[j].path

\* Two calls for different paths hold reserved rows with placeholder UUIDs at
\* once.
C12_Witness ==
    \E k, j \in Calls :
        /\ k # j /\ calls[k].path # calls[j].path
        /\ HoldsPlaceholder(calls[k]) /\ HoldsPlaceholder(calls[j])
        /\ IsPlaceholder(models[calls[k].path].uuid)
        /\ IsPlaceholder(models[calls[j].path].uuid)

\* One call holds the reservation of a path and the other call, for the same
\* path, was refused at its reservation.
C12_SamePathWitness ==
    \E k, j \in Calls :
        /\ k # j /\ calls[k].path = calls[j].path
        /\ HoldsPlaceholder(calls[k])
        /\ calls[j].pc = "done" /\ calls[j].ret.cause = ErrAlreadyExists

\* The calls of OpenAPIFromDoc that found no cached connection and have not
\* given their result back yet.
Dialled == {a \in PoolCallers : opens[a].pc # "idle" /\ ~opens[a].hit}

\* C13 as stated: pool deduplication.  At most one dial function runs for a
\* key at any time; the calls for one key that were issued without a cached
\* entry and before any of them completed are served by one invocation of
\* the dial function, and all of them get the same connection or the same
\* failure.
C13_SingleFlight ==
    /\ \A d1, d2 \in dialing : d1.key = d2.key => d1 = d2
    /\ \A key \in PoolKeys :
          dials[key] = completed[key] + Cardinality({d \in dialing : d.key = key})
    /\ \A a \in Dialled :
          opens[a].pc = "waiting" => [key |-> opens[a].key, n |-> opens[a].dial] \in dialing
    /\ \A a, b \in Dialled :
          (opens[a].key = opens[b].key /\ opens[a].epoch = opens[b].epoch) =>
              /\ opens[a].dial = opens[b].dial
              /\ opens[a].pc = opens[b].pc
              /\ opens[a].err = opens[b].err

\* C13, amended: at most one dial function runs for a key at any time and
\* each invocation ends once, by returning or by being abandoned; a dial in
\* flight has a caller blocked on it; the calls for one key that were issued
\* without a cached entry and before any of them completed are served by
\* one invocation of the dial function; those of them whose context was not
\* cancelled get the same connection or the same failure, and one whose
\* context was cancelled while it waited gets the error of its context.
C13_SingleFlightUncancelled ==
    /\ \A d1, d2 \in dialing : d1.key = d2.key => d1 = d2
    /\ \A key \in PoolKeys :
          dials[key] = completed[key] + Cardinality({d \in dialing : d.key = key})
    /\ \A d \in dialing : Waiters(d) # {}
    /\ \A a \in Dialled :
          /\ opens[a].pc = "waiting" =>
                [key |-> opens[a].key, n |-> opens[a].dial] \in dialing
          /\ opens[a].pc = "open" => opens[a].err = NoErr
          /\ opens[a].pc = "failed" =>
                opens[a].err \in {Canceled, WithCausef(NoErr, ErrAPIConnection, "")}
    /\ \A a, b \in Dialled :
          (opens[a].key = opens[b].key /\ opens[a].epoch = opens[b].epoch) =>
              /\ opens[a].dial = opens[b].dial
              /\ (opens[a].err # Canceled /\ opens[b].err # Canceled) =>
                    /\ opens[a].pc = opens[b].pc
                    /\ opens[a].err = opens[b].err

\* Three calls for one key were issued before any completed and the key has
\* seen one dial: the context of one was cancelled while it waited, and the
\* two others got the connection of that dial.
C13_Witness ==
    \E a, b, c \in PoolCallers :
        /\ a # b /\ a # c /\ b # c
        /\ {a, b, c} \subseteq Dialled
        /\ opens[a].key = opens[b].key /\ opens[a].epoch = opens[b].epoch
        /\ opens[a].key = opens[c].key /\ opens[a].epoch = opens[c].epoch
        /\ opens[a].pc = "open" /\ opens[b].pc = "open"
        /\ opens[c].pc = "failed" /\ opens[c].err = Canceled
        /\ dials[opens[a].key] = 1

\* C14: when runWithContext has returned, either the task's send met the
\* caller's receive and the caller got what f returned, or the context was
\* done, the caller got ctx.Err(), and f's result is not delivered then or
\* later; the error of the context is never returned while the context is
\* not done, and a result the task dropped is logged when it is an error.
C14_RunWithContext ==
    \A t \in Runners :
        /\ runs[t].task = "sent" =>
              runs[t].pc = "returned" /\ runs[t].ret = runs[t].f
        /\ (runs[t].pc = "returned" /\ runs[t].task # "sent") =>
              /\ runs[t].ctx \in {Canceled, DeadlineExceeded}
              /\ runs[t].ret = runs[t].ctx
        /\ (runs[t].pc = "returned" /\ runs[t].ret \in {Canceled, DeadlineExceeded}) =>
              runs[t].ctx # NoErr
        /\ runs[t].task = "dropped" =>
              /\ runs[t].ctx # NoErr
              /\ runs[t].logged = (runs[t].f # NoErr)

\* One call returned the error of f although its context was cancelled by
\* then; the other returned the context's error, and its task has dropped
\* the error f returned.
C14_Witness ==
    \E t, u \in Runners :
        /\ runs[t].pc = "returned" /\ runs[t].task = "sent"
        /\ runs[t].ctx = Canceled /\ runs[t].ret = Err(ErrNotFound, "not found")
        /\ runs[u].pc = "returned" /\ runs[u].task = "dropped"
        /\ runs[u].ret = DeadlineExceeded /\ runs[u].f = Err(ErrUnauthorized, "unauthorized")

\* C15: UpdateCredential waits for the pushes only until the context is
\* cancelled: once its select has taken <-ctx.Done() with pushes still
\* outstanding, the call has returned.
C15_ReturnsOnCancel == upd.spun => upd.pc = "returned"

\* C16: an UpdateCredential call that persisted and reloaded the credential
\* returns nil, however many of its pushes failed.
C16_PushFailuresNotSurfaced ==
    (upd.pc = "returned" /\ upd.loaded) => upd.ret = NoErr

\* The call has returned nil after the push to each of the two controllers
\* of the credential failed and was logged.
C16_Witness ==
    /\ upd.pc = "returned" /\ upd.loaded
    /\ upd.c.controllers = Controllers
    /\ upd.failed = Controllers
    /\ upd.ret = NoErr

\* C17: when UpdateCredential has returned, every controller of the stored
\* credential's controllers set whose push failed has the credential in its
\* UpdateCredentials list, as long as no drain has run on it.
C17_FailedPushFlagged ==
    (upd.pc = "returned" /\ upd.loaded /\ dr.pc = "idle") =>
        \A c \in upd.c.controllers \cap upd.failed : Listed(c, TheCred)

\* C18: a credential leaves the UpdateCredentials list of a controller only
\* in the clearCredentialUpdate of a push of that credential to that
\* controller whose remote call succeeded; a failed push, of the fan-out or
\* of the drain, changes no list, and after a failed push the drain is at the
\* next credential of its list.
C18_ClearOnlyAfterPush ==
    [][/\ \A c \in Controllers : \A cr \in CredPaths :
             (Listed(c, cr) /\ ~Listed(c, cr)') =>
                 \/ /\ pushers[c].pc = "clear" /\ pushers[c].err = NoErr
                    /\ cr = TheCred
                    /\ remoteCred[c][cr] = IF upd.c.revoked THEN "revoked" ELSE "updated"
                 \/ /\ dr.pc = "clear" /\ dr.ctl = c /\ dr.list[dr.idx] = cr
                    /\ cr \notin dr.failed
                    /\ remoteCred[c][cr] = IF dr.rev THEN "revoked" ELSE "updated"
       /\ upd'.failed # upd.failed => pending' = pending
       /\ (dr.pc \in {"loop", "push"} /\ dr'.failed # dr.failed) =>
             /\ pending' = pending
             /\ dr'.pc = "loop" /\ dr'.idx = dr.idx + 1
      ]_vars

\* The push of the fan-out to a controller failed and left the flag; the
\* drain on that controller pushed the other credential, which was recorded
\* first, and cleared its flag, then failed on the same credential and left
\* its flag again.
C18_Witness ==
    /\ dr.pc = "loop" /\ dr.list = <<OtherCred, TheCred>> /\ dr.idx = 3
    /\ dr.failed = {TheCred}
    /\ dr.ctl \in upd.failed
    /\ pending[dr.ctl] = <<TheCred>>

\* C19: the controller is contacted only after the update of the Model row
\* succeeded; when the controller then fails, the call returns the error and
\* the Model row keeps the change; when the update of the row fails, the
\* call returns the error and the controller is not contacted.
C19_LocalFirstNoRollback ==
    /\ gr.contacted => gr.localOK
    /\ gr.pc = "remote" => acl = AclApply(gr.op, gr.before, gr.user, gr.access)
    /\ (gr.pc = "returned" /\ gr.contacted) =>
          /\ acl = AclApply(gr.op, gr.before, gr.user, gr.access)
          /\ gr.ret = NoErr => remoteAcl[gr.access] = AclApply(gr.op, remoteAcl, gr.user, gr.access)[gr.access]
    /\ (gr.pc = "returned" /\ ~gr.localOK) =>
          /\ gr.ret # NoErr /\ ~gr.contacted /\ acl = gr.before

\* A RevokeModel has returned the controller's error; the user is gone from
\* the Model row's ACL and is still in the controller's.
C19_Witness ==
    /\ gr.pc = "returned" /\ gr.op = "revoke" /\ gr.contacted /\ gr.ret # NoErr
    /\ gr.user \in gr.before[gr.access]
    /\ gr.user \notin acl[gr.access]
    /\ gr.user \in remoteAcl[gr.access]

\* C20: when a RevokeModel(user, access) has succeeded right after a
\* GrantModel(user, access) that succeeded, the ACL of the Model row is the
\* ACL before the grant, whatever that ACL was.
C20_RevokeRestores ==
    (/\ gr.pc = "returned" /\ gr.op = "revoke" /\ gr.ret = NoErr
     /\ gr.prev # NoGrant /\ gr.prev.user = gr.user /\ gr.prev.access = gr.access) =>
        acl = gr.prev.before

\* C21: the life of a model and the audit log change only in a DestroyModel
\* whose upstream destroy has succeeded: the life of that model becomes
\* dying, a destroy entry for that model is appended, and nil is returned.
\* When the upstream destroy fails the call returns its error, keeping the
\* has-persistent-storage code and no other, and changes neither; no step of
\* DestroyModel changes the Model rows.
C21_DestroyUpstreamFirst ==
    [][/\ (life' # life \/ audit' # audit) =>
             /\ dm.pc \in {"local", "audit"} /\ dm.path \in upDying /\ dm'.ret = NoErr
             /\ \A p \in Paths :
                   life'[p] # life[p] => (p = dm.path /\ life'[p] = "dying")
             /\ audit' # audit =>
                   audit' = Append(audit, [type |-> "model-destroyed", id |-> dm.path,
                                           uuid |-> dm.uuid])
       /\ (dm' # dm /\ dm'.pc = "returned" /\ dm.pc \notin {"local", "audit"}) =>
             /\ dm'.ret # NoErr
             /\ dm'.ret.cause = IF dm'.upErr.cause = CodeHasPersistentStorage
                                THEN CodeHasPersistentStorage ELSE ""
             /\ life' = life /\ audit' = audit /\ upDying' = upDying
       /\ dm' # dm => models' = models
      ]_vars

\* One model was destroyed: it is dying, its destroy entry is in the audit
\* log and its row is still there; the DestroyModel of the other model has
\* returned the has-persistent-storage error and that model is alive.
C21_Witness ==
    \E p \in Paths :
        /\ life[p] = "dying" /\ models[p] # NoRow
        /\ audit = <<[type |-> "model-destroyed", id |-> p, uuid |-> models[p].uuid]>>
        /\ dm.pc = "returned" /\ dm.path # p
        /\ dm.ret.cause = CodeHasPersistentStorage
        /\ life[dm.path] = "alive"

\* C22 as stated: after a modelInfo that asked the controller and was
\* refused or failed, if the model was dying and the code was unauthorized
\* the result has the Unauthorized cause and the row of (controller, UUID)
\* is deleted; otherwise the row is kept and the local info is returned
\* without error.
C22_ReapDeletes ==
    (mi.pc = "returned" /\ mi.code # "") =>
        IF mi.life = "dying" /\ mi.code = CodeUnauthorized
        THEN /\ mi.ret.cause = ErrUnauthorized
             /\ \A q \in Paths : ~RowIs(q, mi.ctl, mi.uuid)
        ELSE /\ RowIs(mi.path, mi.ctl, mi.uuid)
             /\ mi.ret = NoErr /\ mi.info = <<mi.uuid, mi.life>>

\* C22, amended: after a modelInfo that asked the controller and was
\* refused or failed, if the model was dying and the code was unauthorized
\* the result has the Unauthorized cause and DeleteModelWithUUID was called
\* for (controller, UUID), the row being gone when that call succeeded;
\* otherwise no deletion was tried, the row is kept and the local info is
\* returned without error.
C22_ReapTriesDelete ==
    (mi.pc = "returned" /\ mi.code # "") =>
        IF mi.life = "dying" /\ mi.code = CodeUnauthorized
        THEN /\ mi.ret.cause = ErrUnauthorized
             /\ mi.del \in {"ok", "failed"}
             /\ mi.del = "ok" => \A q \in Paths : ~RowIs(q, mi.ctl, mi.uuid)
        ELSE /\ mi.del = "none"
             /\ RowIs(mi.path, mi.ctl, mi.uuid)
             /\ mi.ret = NoErr /\ mi.info = <<mi.uuid, mi.life>>

\* A dying model that its controller has removed was asked for: the call
\* returned the Unauthorized cause and the row is gone.
C22_Witness ==
    /\ mi.pc = "returned" /\ mi.life = "dying" /\ mi.code = CodeUnauthorized
    /\ mi.del = "ok" /\ mi.ret.cause = ErrUnauthorized
    /\ models[mi.path] = NoRow
    /\ mi.path \in upDying

(***************************************************************************)
(* The dispatcher's claims.                                                *)
(***************************************************************************)

\* C23: while the connection is unauthenticated FindMethod resolves only
\* (Admin, 3) and (Pinger, 1): a call that looked any other pair up in the
\* unauthenticated table got the not-implemented error, and a call refused
\* before the lookup got the not-supported error; neither reached a facade
\* constructor or the login, whatever was called before.
C23_UnauthenticatedFacades ==
    \A c \in DispCallers :
        /\ (fm[c].at = "unauthenticated"
                /\ <<fm[c].rootName, fm[c].version>> \notin {<<"Admin", 3>>, <<"Pinger", 1>>})
            => /\ fm[c].pc = "returned" /\ fm[c].rn = ""
               /\ fm[c].err.cause = CodeNotImplemented
               /\ ~fm[c].handler /\ ~fm[c].login
        /\ (fm[c].at = "unauthenticated"
                /\ <<fm[c].rootName, fm[c].version>> \in {<<"Admin", 3>>, <<"Pinger", 1>>})
            => fm[c].rn = fm[c].rootName
        /\ (fm[c].pc = "returned" /\ fm[c].at = "")
            => /\ fm[c].err.cause = CodeNotSupported
               /\ ~fm[c].handler /\ ~fm[c].login

\* Before any login, after a failed login on the connection, a Bundle call
\* was refused as not implemented.
C23_Witness ==
    /\ root.facades = "unauthenticated" /\ root.finds >= 2
    /\ \E c \in DispCallers :
          /\ fm[c].pc = "returned" /\ fm[c].login /\ fm[c].err.cause = ErrUnauthorized
    /\ \E c \in DispCallers :
          /\ fm[c].pc = "returned" /\ fm[c].rootName = "Bundle"
          /\ fm[c].at = "unauthenticated" /\ fm[c].err.cause = CodeNotImplemented

\* C24: in either state of the connection a call of Admin below version 3
\* returns the not-supported error: it is not reported as not implemented,
\* no table is consulted, no constructor runs and the login is not entered.
C24_OldAdminNotSupported ==
    \A c \in DispCallers :
        (fm[c].pc # "idle" /\ fm[c].rootName = "Admin" /\ fm[c].version < 3)
            => /\ fm[c].pc = "returned"
               /\ fm[c].err.cause = CodeNotSupported
               /\ fm[c].err.cause # CodeNotImplemented
               /\ fm[c].at = "" /\ fm[c].rn = ""
               /\ ~fm[c].handler /\ ~fm[c].login

\* The connection is authenticated and the last call of every goroutine, the
\* one that logged in included, was Admin version 2.
C24_Witness ==
    /\ root.facades = "authenticated"
    /\ \A c \in DispCallers :
          /\ fm[c].pc = "returned" /\ fm[c].rootName = "Admin" /\ fm[c].version = 2
          /\ fm[c].err.cause = CodeNotSupported

\* C25: a constructor other than ModelSummaryWatcher that is called with a
\* non-empty object id returns an error whose cause is BadId, and no facade
\* object.
C25_BadIdCause ==
    \A c \in DispCallers :
        (fm[c].pc = "returned" /\ fm[c].rn \notin {"", "ModelSummaryWatcher"}
            /\ fm[c].objectId # "")
            => fm[c].err.cause = ErrBadId /\ ~fm[c].handler

\* C26: every invocation of FindMethod calls Heartbeat exactly once, be the
\* call resolved or refused: the heartbeats counted on the connection are
\* as many as the invocations.
C26_HeartbeatPerCall == root.beats = root.finds

\* One call was refused as not supported, another was resolved to a facade
\* object, and a third was dispatched as well.
C26_Witness ==
    /\ root.finds >= 3
    /\ \E c \in DispCallers :
          fm[c].pc = "returned" /\ fm[c].err.cause = CodeNotSupported
    /\ \E c \in DispCallers : fm[c].pc = "returned" /\ fm[c].handler

\* C27: the identity and the facade table are read and written under mu
\* only, so that no call reads the identity while a login that holds mu is
\* writing it.
C27_NoUnsynchronisedRead ==
    \A c \in DispCallers : fm[c].read # "racing"

(***************************************************************************)
(* The reference count of the pool: Pool.Close, Pool.decRef, Pool.JEM      *)
(* (part_001:157-201), JEM.Clone and JEM.Close (223-253), and the clones   *)
(* of UpdateCredential's fan-out (679-700).                                *)
(***************************************************************************)

\* The ids no instance was made under; a new instance takes the least.
FreeJems == {i \in JemIds : jems[i].st = "none"}
NewJem == CHOOSE i \in FreeJems : \A i2 \in FreeJems : i <= i2
OpenJems == {i \in JemIds : jems[i].st = "open"}

\* part_001:167-175, decRef: the count goes down by one, the connection
\* cache is closed when it reaches 0, and a negative count panics.
decRef(p) ==
    LET n == p.refCount - 1
    IN  [p EXCEPT !.refCount = n,
                  !.cacheCloses = IF n = 0 THEN @ + 1 ELSE @,
                  !.panic = IF n < 0 THEN "negative reference count" ELSE ""]

\* part_001:157-165, Pool.Close: nothing on a closed pool; else the pool's
\* own reference is dropped and the pool is marked closed.
PoolClose ==
    /\ pool' = IF pool.closed THEN [pool EXCEPT !.panic = ""]
               ELSE [decRef(pool) EXCEPT !.closed = TRUE]
    /\ UNCHANGED jems
    /\ UNCHANGED <<monVars, jemVars, faults, poolVars, runVars, credVars, aclVars,
                   lifeVars, dispVars, fnVars, delVars, cmdVars, ovVars>>

\* part_001:189-201, Pool.JEM: panics on a closed pool; else the count goes
\* up by one and a new JEM is returned.
PoolJEM ==
    /\ FreeJems # {}
    /\ IF pool.closed
       THEN /\ pool' = [pool EXCEPT !.panic = "JEM call on closed pool"]
            /\ UNCHANGED jems
       ELSE /\ pool' = [pool EXCEPT !.refCount = @ + 1, !.panic = ""]
            /\ jems' = [jems EXCEPT ![NewJem] = [NoJem EXCEPT !.st = "open"]]
    /\ UNCHANGED <<monVars, jemVars, faults, poolVars, runVars, credVars, aclVars,
                   lifeVars, dispVars, fnVars, delVars, cmdVars, ovVars>>

\* part_001:226-235, j.Clone(): the count goes up by one, whatever j and the
\* pool are, and the new JEM gets j.DB.clone().  On a closed j, j.DB is nil
\* (249) and the clone of a nil database either panics, leaving no
\* instance, or is made.  fan says that the call is the argument of the go
\* statement of UpdateCredential (699), which is made on the JEM in use.
Clone(j, fan, made) ==
    /\ FreeJems # {}
    /\ jems[j].st # "none"
    /\ fan => jems[j].st = "open"
    /\ made \/ jems[j].st = "closed"
    /\ pool.refCount < MaxRef
    /\ pool' = [pool EXCEPT !.refCount = @ + 1, !.panic = IF made THEN "" ELSE "nil DB",
                            !.reused = @ \/ jems[j].st = "closed"]
    /\ jems' = IF made
               THEN [jems EXCEPT ![NewJem] = [NoJem EXCEPT !.st = "open", !.fan = fan]]
               ELSE jems
    /\ UNCHANGED <<monVars, jemVars, faults, poolVars, runVars, credVars, aclVars,
                   lifeVars, dispVars, fnVars, delVars, cmdVars, ovVars>>

\* part_001:243-253, j.Close(): nothing on a closed JEM; else the JEM is
\* marked closed, its session is closed, its DB is set to nil and the pool's
\* count is dropped.  The goroutine of the fan-out calls it once, deferred
\* (687), on the clone it was given.
JEMClose(j) ==
    /\ jems[j].st # "none"
    /\ jems[j].fan => jems[j].st = "open"
    /\ IF jems[j].st = "closed"
       THEN /\ pool' = [pool EXCEPT !.panic = ""]
            /\ UNCHANGED jems
       ELSE /\ jems' = [jems EXCEPT ![j].st = "closed", ![j].closes = @ + 1]
            /\ pool' = decRef(pool)
    /\ UNCHANGED <<monVars, jemVars, faults, poolVars, runVars, credVars, aclVars,
                   lifeVars, dispVars, fnVars, delVars, cmdVars, ovVars>>

NextRef ==
    \/ PoolJEM
    \/ PoolClose
    \/ \E j \in JemIds : \E made \in BOOLEAN : Clone(j, FALSE, made)
    \/ \E j \in JemIds : Clone(j, TRUE, TRUE)
    \/ \E j \in JemIds : JEMClose(j)

\* A gateway whose pool hands out JEMs.
SpecRef == InitCM /\ [][NextRef]_vars

\* C37: the pool's reference count is the number of JEM instances that are
\* not closed, plus one while the pool is not closed, and is never
\* negative; the connection cache was closed once if the pool is closed and
\* no instance is open, and not at all otherwise; no instance had its
\* session closed twice, and a closed clone of the fan-out had it closed
\* once.
C37_RefCount ==
    /\ pool.refCount = Cardinality(OpenJems) + (IF pool.closed THEN 0 ELSE 1)
    /\ pool.refCount >= 0
    /\ pool.cacheCloses = IF pool.closed /\ OpenJems = {} THEN 1 ELSE 0
    /\ \A i \in JemIds :
          /\ jems[i].closes <= 1
          /\ jems[i].st = "closed" => jems[i].closes = 1

\* While no JEM was cloned after it was closed, the count is right, the
\* cache is closed when it should be and every session is closed once.
RefCountOfLiveClones == ~pool.reused => C37_RefCount

(***************************************************************************)
(* Overlapping calls of JEM.UpdateCredential (part_001:662-710) for one    *)
(* credential, each with its fan-out of updateControllerCredential         *)
(* (741-784).  Every call stores a new content, which is a new version.    *)
(***************************************************************************)

\* part_001:663-665, j.DB.updateCredential(ctx, cred): the stored
\* credential takes the content of the argument, whose Controllers field is
\* what the caller put there; when the store fails the call returns its
\* error and nothing is stored.
UCsPersist(u) ==
    /\ ucs[u].pc = "idle"
    /\ \E arg \in SUBSET Controllers :
          \/ /\ credVer' = credVer + 1
             /\ ucs' = [ucs EXCEPT ![u].pc = "reload", ![u].arg = arg]
             /\ UNCHANGED faults
          \/ /\ Fault
             /\ ucs' = [ucs EXCEPT ![u].pc = "returned", ![u].arg = arg,
                   ![u].ret = Notef(NoErr, "cannot update local database")]
             /\ UNCHANGED credVer
    /\ UNCHANGED <<flagged, held>>
    /\ UNCHANGED <<monVars, jemVars, poolVars, runVars, credVars, aclVars,
                   lifeVars, dispVars, fnVars, delVars, cmdVars, refVars>>

\* part_001:666-669, c, err := j.DB.Credential(ctx, cred.Path): the
\* document is read as it is stored now; when the read fails the call
\* returns the masked error, the credential stored and nothing else done.
UCsReload(u) ==
    /\ ucs[u].pc = "reload"
    /\ \/ /\ ucs' = [ucs EXCEPT ![u].pc = "mark", ![u].c = credVer]
          /\ UNCHANGED faults
       \/ /\ Fault
          /\ ucs' = [ucs EXCEPT ![u].pc = "returned",
                ![u].ret = Mask(Err("", "cannot get credential"), {})]
    /\ UNCHANGED <<credVer, flagged, held>>
    /\ UNCHANGED <<monVars, jemVars, poolVars, runVars, credVars, aclVars,
                   lifeVars, dispVars, fnVars, delVars, cmdVars, refVars>>

\* part_001:670-700: setCredentialUpdates puts the credential in the
\* UpdateCredentials list of the controllers of the argument (671), its
\* failure being only logged, and one goroutine is started for each
\* controller of the reloaded document c (681, 684), which are all the
\* controllers here.
UCsMark(u) ==
    /\ ucs[u].pc = "mark"
    /\ \/ /\ flagged' = flagged \cup ucs[u].arg
          /\ UNCHANGED faults
       \/ /\ Fault
          /\ UNCHANGED flagged
    /\ ucs' = [ucs EXCEPT ![u].pc = "wait", ![u].push = [c \in Controllers |-> "push"]]
    /\ UNCHANGED <<credVer, held>>
    /\ UNCHANGED <<monVars, jemVars, poolVars, runVars, credVars, aclVars,
                   lifeVars, dispVars, fnVars, delVars, cmdVars, refVars>>

\* part_001:741-774, updateControllerCredential(ctx, ctlPath, cred.Path,
\* nil, c) in the goroutine for the controller c: the connection is opened
\* and the document the call reloaded is sent to the controller; a failure
\* of either is returned, logged by the goroutine (690-697), and ends it.
UCsPush(u, c) ==
    /\ ucs[u].push[c] = "push"
    /\ \/ /\ held' = [held EXCEPT ![c] = ucs[u].c]
          /\ ucs' = [ucs EXCEPT ![u].push[c] = "clear"]
          /\ UNCHANGED faults
       \/ /\ Fault
          /\ ucs' = [ucs EXCEPT ![u].push[c] = "done"]
          /\ UNCHANGED held
    /\ UNCHANGED <<credVer, flagged>>
    /\ UNCHANGED <<monVars, jemVars, poolVars, runVars, credVars, aclVars,
                   lifeVars, dispVars, fnVars, delVars, cmdVars, refVars>>

\* part_001:775-783 and 684-686: clearCredentialUpdate pulls the credential
\* from the controller's UpdateCredentials list, its failure being only
\* logged and the credential left in the list, and the goroutine sends its
\* token.
UCsClear(u, c) ==
    /\ ucs[u].push[c] = "clear"
    /\ \/ /\ flagged' = flagged \ {c}
          /\ UNCHANGED faults
       \/ /\ Fault
          /\ UNCHANGED flagged
    /\ ucs' = [ucs EXCEPT ![u].push[c] = "done"]
    /\ UNCHANGED <<credVer, held>>
    /\ UNCHANGED <<monVars, jemVars, poolVars, runVars, credVars, aclVars,
                   lifeVars, dispVars, fnVars, delVars, cmdVars, refVars>>

\* part_001:701-709: the call has received the token of every goroutine
\* and returns nil.
UCsReturn(u) ==
    /\ ucs[u].pc = "wait"
    /\ \A c \in Controllers : ucs[u].push[c] = "done"
    /\ ucs' = [ucs EXCEPT ![u].pc = "returned"]
    /\ UNCHANGED <<credVer, flagged, held>>
    /\ UNCHANGED <<monVars, jemVars, faults, poolVars, runVars, credVars, aclVars,
                   lifeVars, dispVars, fnVars, delVars, cmdVars, refVars>>

NextOv ==
    \E u \in UCallers :
        \/ UCsPersist(u)
        \/ UCsReload(u)
        \/ UCsMark(u)
        \/ \E c \in Controllers : UCsPush(u, c)
        \/ \E c \in Controllers : UCsClear(u, c)
        \/ UCsReturn(u)

\* A gateway that serves two callers of UpdateCredential.
SpecOv == InitCM /\ [][NextOv]_vars

\* C38: once every UpdateCredential call has returned and no push is in
\* flight, each controller of the credential holds the version that is
\* stored, or still has the credential in its UpdateCredentials list.
C38_NoStaleController ==
    (\A u \in UCallers :
        /\ ucs[u].pc = "returned"
        /\ \A c \in Controllers : ucs[u].push[c] \in {"none", "done"})
    => \A c \in Controllers : held[c] = credVer \/ c \in flagged

\* While one call at most has started and neither the store nor a
\* controller has failed, a controller is never left behind.
OneCallNoStaleController ==
    ((\E u \in UCallers : ucs[u].pc = "idle") /\ faults = 0)
    => ((\A u \in UCallers : ucs[u].pc \in {"idle", "returned"})
           => \A c \in Controllers : held[c] = credVer)

(***************************************************************************)
(* CreateModel beside Database.DeleteModel, the call its cleanup makes     *)
(* (part_001:482) and any other holder of the database can make            *)
(* (internal/jem/jem_test.go:192-211).                                     *)
(***************************************************************************)

\* The path the calls and the deletions contend for; every call has one
\* candidate controller.
ContendedPaths == {"p1"}

NextCMDel ==
    \/ \E k \in Calls :
          \/ \E p \in ContendedPaths : \E cl \in {l \in CandidateLists : Len(l) = 1} :
                \E uc \in BOOLEAN : CMStart(k, p, cl, uc)
          \/ CMReserve(k)
          \/ CMConnect(k) \/ CMCred(k) \/ CMCreate(k) \/ CMGrant(k)
          \/ CMReconcile(k) \/ CMAudit(k) \/ CMCleanup(k)
    \/ \E p \in ContendedPaths : DeleteModel(p)

\* A gateway that serves CreateModel calls while models are deleted.
SpecCMDel == InitCM /\ [][NextCMDel]_vars

\* C39: when the deferred function of a failed CreateModel call removes a
\* row, the row is the one the call inserted: it carries the placeholder
\* UUID of the call.
C39_CleanupRemovesOwnRow ==
    [][\A k \in Calls :
          (calls[k].pc = "cleanup" /\ calls'[k].pc = "done" /\ models' # models)
              => models[calls[k].path].uuid = calls[k].placeholder]_vars

\* C33: in a step of the sweep of a replica over the listed controller, the
\* lease is taken only if the controller is not in the replica's monitoring
\* set and it is not so that the listed owner is another one while the
\* listed expiry is in the future, and only if the stored owner and expiry
\* are the listed ones; the new owner is the replica and the new expiry the
\* lease duration from now; and when that condition holds, the stored lease
\* is the listed one and the store does not fail, the lease is taken.
C33_AcquireExactlyWhen ==
    [][\A r \in Replicas :
        (alive[r] /\ alive'[r] /\ amPc[r] = "sweep" /\ todo[r] # <<>>
            /\ todo'[r] # todo[r])
        => LET ctl == Head(todo[r])
               c == ctl.path
               wanted == /\ c \notin monitoring[r]
                         /\ ~(ctl.owner # r /\ now < ctl.expiry)
               matches == leaseOwner[c] = ctl.owner /\ leaseExpiry[c] = ctl.expiry
               taken == c \in monitoring'[r] /\ c \notin monitoring[r]
           IN  /\ taken => /\ wanted /\ matches
                           /\ leaseOwner'[c] = r
                           /\ leaseExpiry'[c] = now + leaseExpiryDuration
               /\ (wanted /\ matches /\ faults' = faults) => taken
               /\ ~taken => /\ leaseOwner' = leaseOwner /\ leaseExpiry' = leaseExpiry
                            /\ monitoring' = monitoring
               /\ \A d \in Controllers \ {c} :
                     leaseOwner'[d] = leaseOwner[d] /\ leaseExpiry'[d] = leaseExpiry[d]
    ]_vars

\* A replica holds the lease of a controller and monitors it, while the
\* sweep of another replica is at that controller, listed with the first
\* replica as owner and an expiry in the future.
C33_Witness ==
    \E r \in Replicas, r2 \in Replicas :
        /\ r # r2 /\ alive[r] /\ alive[r2]
        /\ amPc[r2] = "sweep" /\ todo[r2] # <<>>
        /\ LET ctl == Head(todo[r2])
           IN  /\ ctl.path \in monitoring[r] /\ leaseOwner[ctl.path] = r
               /\ ctl.owner = r /\ now < ctl.expiry

\* C34: in every running replica a controller is in the monitoring set
\* exactly while the goroutine started with its controller monitor has not
\* yet delivered the path on controllerRemoved; a controller monitor exists
\* only for a path in the set and no second one is ever started beside it;
\* a path enters the set only in a step that takes the lease, and leaves it
\* only when the goroutine of a dead controller monitor delivers it, which
\* ends that goroutine.
C34_MonitoringSet ==
    /\ [](\A r \in Replicas : \A c \in Controllers :
            alive[r] =>
                /\ (c \in monitoring[r]) <=> (gPc[r][c] # "none")
                /\ cmPc[r][c] # "none" => c \in monitoring[r]
                /\ ~dup[r])
    /\ [][\A r \in Replicas : \A c \in Controllers :
            (alive[r] /\ alive'[r]) =>
                /\ (c \in monitoring'[r] /\ c \notin monitoring[r])
                    => /\ amPc[r] = "sweep" /\ Head(todo[r]).path = c
                       /\ leaseOwner[c] = Head(todo[r]).owner
                       /\ leaseExpiry[c] = Head(todo[r]).expiry
                       /\ leaseOwner'[c] = r
                       /\ cmPc[r][c] = "none" /\ cmPc'[r][c] = "running"
                /\ (c \notin monitoring'[r] /\ c \in monitoring[r])
                    => /\ gPc[r][c] = "send" /\ cmPc[r][c] = "dead"
                       /\ gPc'[r][c] = "none" /\ cmPc'[r][c] = "none"
                /\ (cmPc[r][c] = "none" /\ cmPc'[r][c] # "none")
                    => c \in monitoring'[r] /\ c \notin monitoring[r]
      ]_vars

\* The controller monitor of a replica is dead and its goroutine is about to
\* deliver the path, which is still in the monitoring set, while the other
\* replica, which does not monitor the controller, waits between sweeps.
C34_Witness ==
    \E r \in Replicas, c \in Controllers :
        /\ alive[r] /\ c \in monitoring[r] /\ cmPc[r][c] = "dead" /\ gPc[r][c] = "send"
        /\ \E r2 \in Replicas \ {r} : alive[r2] /\ c \notin monitoring[r2]
                                      /\ amPc[r2] = "wait"

\* C35: a CreateModel call contacts a controller (dial, credential push,
\* remote CreateModel, grant) only after its reservation row was inserted;
\* a call that fails before the reservation inserts no row; and when the
\* path is taken the insert leaves every row as it is and the call returns,
\* with the already-exists cause unless the store failed, having contacted
\* no controller.
C35_ReserveBeforeRemote ==
    /\ [](\A k \in Calls :
            calls[k].pc \in {"connect", "cred", "create", "grant"}
                => calls[k].placeholder # NoUUID)
    /\ [][\A k \in Calls :
            calls'[k] # calls[k] =>
                /\ calls[k].pc \in {"idle", "reserve"}
                    => /\ remote' = remote /\ credOn' = credOn
                       /\ remoteCred' = remoteCred /\ credCtls' = credCtls
                       /\ calls'[k].trail = <<>>
                /\ calls[k].pc = "idle"
                    => /\ models' = models
                       /\ calls'[k].pc \in {"reserve", "done"}
                       /\ calls'[k].pc = "done" => calls'[k].ret # NoErr
                /\ (calls[k].pc = "reserve" /\ models[calls[k].path] # NoRow)
                    => /\ models' = models
                       /\ calls'[k].pc = "done"
                       /\ faults' = faults => calls'[k].ret.cause = ErrAlreadyExists
                /\ (calls[k].pc = "reserve" /\ models' # models)
                    => /\ models[calls[k].path] = NoRow
                       /\ models'[calls[k].path].uuid = calls'[k].placeholder
                       /\ calls'[k].pc \in {"connect", "cleanup"}
      ]_vars

\* A call found its path taken by the reservation of another call, which is
\* still at work, and returned the already-exists error; the row is the
\* other call's.
C35_Witness ==
    \E k \in Calls, k2 \in Calls :
        /\ k # k2 /\ calls[k].pc = "done" /\ calls[k].ret.cause = ErrAlreadyExists
        /\ calls[k2].path = calls[k].path /\ calls[k2].pc = "create"
        /\ models[calls[k].path].uuid = calls[k2].placeholder

\* C36: a call that looked its pair up in the table of the authenticated
\* state, for one of Admin 3, Pinger 1, Cloud 1 to 5, Controller 3 to 9,
\* ModelManager 2 to 5, UserManager 1, Bundle 1, JIMM 1 and 2,
\* ModelSummaryWatcher 1, was resolved to a constructor and was not answered
\* with the not-implemented error.
C36_AuthenticatedResolves ==
    \A c \in DispCallers :
        (fm[c].at = "authenticated"
            /\ <<fm[c].rootName, fm[c].version>> \in
                  {<<"Admin", 3>>} \cup ({"Pinger", "UserManager", "Bundle",
                                          "ModelSummaryWatcher"} \X {1})
                  \cup ({"Cloud"} \X (1..5)) \cup ({"Controller"} \X (3..9))
                  \cup ({"ModelManager"} \X (2..5)) \cup ({"JIMM"} \X {1, 2}))
            => fm[c].rn # "" /\ fm[c].err.cause # CodeNotImplemented

\* C40: a task whose function has returned ends: it hands its result to the
\* caller, who returns it, or it takes the done context and drops the
\* result; and a task that still has its result after the caller returned
\* has a done context to take, so it is not held by the channel.
C40_TaskTerminates ==
    /\ [](\A t \in Runners :
            /\ (runs[t].pc = "returned" /\ runs[t].task = "send") => runs[t].ctx # NoErr
            /\ runs[t].task = "dropped" => runs[t].ctx # NoErr
            /\ runs[t].task = "sent" => runs[t].pc = "returned")
    /\ \A t \in Runners :
          (runs[t].task = "send") ~> (runs[t].task \in {"sent", "dropped"})

\* The caller returned on its cancelled context while f was running; f then
\* returned an error and the task took the done context and dropped it.
C40_Witness ==
    \E t \in Runners :
        /\ runs[t].pc = "returned" /\ runs[t].ret = Mask(runs[t].ctx, {runs[t].ctx.cause})
        /\ runs[t].task = "dropped" /\ runs[t].f # NoErr /\ runs[t].logged

====
